---- MODULE Spec2Model ----
(***************************************************************************)
(* A model of pycopia's shell tokenizer (core/pycopia/shparser.py): the    *)
(* ShellParser session, the transition table that ShellParser._init        *)
(* registers, the action callbacks, and ShellParser.feed with its pushback *)
(* drain loop.  A text is a sequence of symbols; a symbol is a string of   *)
(* one character.  The module also models pycopia's duration parser       *)
(* (aid/pycopia/timespec.py): the table TimespecParser.__init__ registers, *)
(* its callbacks and TimespecParser.parse.                                 *)
(***************************************************************************)
EXTENDS Integers, Sequences, FiniteSets, TLC

VARIABLES current_state, arg, varname, stack, arg_list, buf, delivered,
          errors, fed, pending, plog, mark, ret,
          t_state, t_arg, t_stack, seconds, result, parsed, prior, tlog,
          timespecs, gen, requests,
          det, retries, callback, goes,
          holder, lastop, atlock,
          prompt, typed, _argv, returned, calls,
          pc, jobpos, lockfiles

\* the tokenizer session and what is recorded of its calls
shvars == <<current_state, arg, varname, stack, arg_list, buf, delivered,
            errors, fed, pending, plog, mark, ret>>

\* the duration parser and what is recorded of its calls
tvars == <<t_state, t_arg, t_stack, seconds, result, parsed, prior, tlog>>

\* the generator of time marks, its input and the requests made to it
mvars == <<timespecs, gen, requests>>

\* the reboot detector: its go call, pinger.retries, whether a callback was
\* passed, the go calls made
rvars == <<det, retries, callback, goes>>

\* the configuration holder, the latest operation on it, its keys at lock()
cvars == <<holder, lastop, atlock>>

\* the interactive mode: the prompt it shows, the lines typed
ivars == <<prompt, typed>>

\* the command splitter: its _argv, what feedline returned, its calls
svars == <<_argv, returned, calls>>

\* the job runners: where each is in __call__ and in its list of jobs, and
\* the lock files that exist
jvars == <<pc, jobpos, lockfiles>>

\* the state of the callers of the tokenizer and of the job runners
ovars == <<ivars, svars, jvars>>

vars == <<shvars, tvars, mvars, rvars, cvars, ovars>>

----------------------------------------------------------------------------
(* Bounds of the model. *)

\* total number of symbols a caller that holds no script feeds in a behaviour
MaxFed == 3
\* largest chunk such a caller passes to one feed call
MaxChunk == 2

----------------------------------------------------------------------------
(* Symbols. *)

\* the wildcard pycopia.fsm.ANY
ANY == "<ANY>"

\* the character "\b" (TLA+ strings have no escape for it)
BACKSPACE == "<BS>"

\* ShellParser.VARNAME
VARNAME ==
    {"a","b","c","d","e","f","g","h","i","j","k","l","m","n","o","p","q","r",
     "s","t","u","v","w","x","y","z","A","B","C","D","E","F","G","H","I","J",
     "K","L","M","N","O","P","Q","R","S","T","U","V","W","X","Y","Z","0","1",
     "2","3","4","5","6","7","8","9","_","?"}

\* _SPECIAL
SPECIAL == [c \in {"r", "n", "t", "b"} |->
              CASE c = "r" -> "\r"
                [] c = "n" -> "\n"
                [] c = "t" -> "\t"
                [] c = "b" -> BACKSPACE]

\* _SPECIAL.get(c, c)
SpecialGet(c) == IF c \in DOMAIN SPECIAL THEN SPECIAL[c] ELSE c

\* the symbols a caller that holds no script feeds
Alphabet == {"H", "t", " ", ";", "\n", "\\", "'", "\"", "$", "{", "}"}

\* os.environ: HOME and H are set, every other name is not
environ ==
    (<<"H","O","M","E">> :> <<"/","h","o","m","e","/","u">>) @@
    (<<"H">> :> <<"/","u">>)

\* a lookup that yields the text None for a name that is not set
EnvironGet_None(name) ==
    IF name \in DOMAIN environ THEN environ[name] ELSE <<"N","o","n","e">>

\* os.environ.get(name, "")
EnvironGet(name) == IF name \in DOMAIN environ THEN environ[name] ELSE <<>>

\* Python's s[i:] and s[i:-1] for 0 <= i
SliceFrom(s, i) == SubSeq(s, i + 1, Len(s))
SliceFromButLast(s, i) == SubSeq(s, i + 1, Len(s) - 1)

----------------------------------------------------------------------------
(* The transition table, in the order ShellParser._init registers it.      *)
(* An entry of add_transition_list carries the set of its symbols.         *)

T(syms, from, action, to) ==
    [syms |-> syms, from |-> from, action |-> action, to |-> to]

Registered == <<
    T({ANY},      0, "_addtext",     0),
    T({" ", "\t"}, 0, "_wordbreak",  0),
    T({";", "\n"}, 0, "_doit",       0),
    T({"\\"},     0, "None",         1),
    T({"\\"},     3, "None",         6),
    T({ANY},      1, "_slashescape", 0),
    T({ANY},      6, "_slashescape", 3),
    T({"$"},      0, "_startvar",    7),
    T({"{"},      7, "_vartext",     9),
    T(VARNAME,    7, "_vartext",     7),
    T({ANY},      7, "_endvar",      0),
    T({"}"},      9, "_endvarbrace", 0),
    T({ANY},      9, "_vartext",     9),
    T({"$"},      3, "_startvar",    8),
    T({"{"},      8, "_vartext",     10),
    T(VARNAME,    8, "_vartext",     8),
    T({ANY},      8, "_endvar",      3),
    T({"}"},      10, "_endvarbrace", 3),
    T({ANY},      10, "_vartext",    10),
    T({"'"},      0, "None",         2),
    T({"'"},      2, "_singlequote", 0),
    T({ANY},      2, "_addtext",     2),
    T({"\""},     0, "None",         3),
    T({"\""},     3, "_doublequote", 0),
    T({ANY},      3, "_addtext",     3) >>

\* the table with ; and newline also registered inside double quotes
Transitions_DoitInQuotes ==
    Registered \o << T({";", "\n"}, 3, "_doit", 3) >>

\* the table with only the newline registered as a terminator
Transitions_NewlineOnly ==
    [Registered EXCEPT ![3] = T({"\n"}, 0, "_doit", 0)]

\* the table with the double-quoted variable name ending in the base state
Transitions_VarLeavesQuote ==
    [Registered EXCEPT ![17] = T({ANY}, 8, "_endvar", 0)]

\* the table without the ANY entry of the state 9, inside ${
Transitions_NoAnyInBrace ==
    SubSeq(Registered, 1, 12) \o SubSeq(Registered, 14, Len(Registered))

\* the table with ; registered a second time in the base state, as a word
\* break
Transitions_Conflict ==
    Registered \o << T({";"}, 0, "_wordbreak", 0) >>

\* self._fsm: the table the automaton holds once _init has run
Transitions == Registered

\* f.add_default_transition(self._error, 0)
DefaultTransition == [action |-> "_error", to |-> 0]

----------------------------------------------------------------------------
(* The automaton of pycopia.fsm, as ShellParser uses it. *)

\* the last registration for (sym, state), 0 when there is none: a later
\* add_transition for the same pair overwrites an earlier one
LastMatch(sym, state) ==
    LET hits == {i \in DOMAIN Transitions :
                    /\ Transitions[i].from = state
                    /\ sym \in Transitions[i].syms}
    IN IF hits = {} THEN 0 ELSE CHOOSE i \in hits : \A j \in hits : j <= i

\* FSM.get_transition: the exact entry, else the ANY entry of the state,
\* else the default transition
get_transition(sym, state) ==
    LET exact == LastMatch(sym, state)
        any == LastMatch(ANY, state)
    IN IF exact # 0
       THEN [action |-> Transitions[exact].action, to |-> Transitions[exact].to]
       ELSE IF any # 0
       THEN [action |-> Transitions[any].action, to |-> Transitions[any].to]
       ELSE DefaultTransition

\* FSM.push
push(S, c) == [S EXCEPT !.stack = Append(@, c)]

\* FSM.pop: the symbol pushed last
Top(S) == S.stack[Len(S.stack)]
pop(S) == [S EXCEPT !.stack = SubSeq(@, 1, Len(@) - 1)]

\* FSM.reset: back to the initial state, accumulator and stack cleared
fsm_reset(S) == [S EXCEPT !.current_state = 0, !.arg = <<>>, !.stack = <<>>]

----------------------------------------------------------------------------
(* The action callbacks of ShellParser; S is the session, c the symbol. *)

_startvar(S, c) == [S EXCEPT !.varname = <<c>>]

_vartext(S, c) == [S EXCEPT !.varname = Append(@, c)]

\* the name looked up with its $ still on it
_endvar_WithDollar(S, c) ==
    LET P == push(S, c)
    IN [P EXCEPT !.arg = @ \o EnvironGet(SliceFrom(S.varname, 0))]

_endvar(S, c) ==
    LET P == push(S, c)
    IN [P EXCEPT !.arg = @ \o EnvironGet(SliceFrom(S.varname, 1))]

_endvarbrace(S, c) ==
    LET V == Append(S.varname, c)
    IN [S EXCEPT !.varname = V,
                 !.arg = @ \o EnvironGet(SliceFromButLast(V, 2))]

_error(S, c) ==
    fsm_reset([S EXCEPT !.errors = Append(@, [sym |-> c, stack |-> S.stack])])

_addtext(S, c) == [S EXCEPT !.arg = Append(@, c)]

\* a word break that closes the token even when it is empty
_wordbreak_Always(S, c) ==
    [S EXCEPT !.arg_list = Append(@, S.arg), !.arg = <<>>]

_wordbreak(S, c) ==
    IF S.arg # <<>>
    THEN [S EXCEPT !.arg_list = Append(@, S.arg), !.arg = <<>>]
    ELSE S

\* the escaped symbol taken as it is
_slashescape_Literal(S, c) == [S EXCEPT !.arg = Append(@, c)]

_slashescape(S, c) == [S EXCEPT !.arg = Append(@, SpecialGet(c))]

\* the closing quote dropping an empty token, as a word break does
_singlequote_NonEmpty(S, c) ==
    IF S.arg # <<>>
    THEN [S EXCEPT !.arg_list = Append(@, S.arg), !.arg = <<>>]
    ELSE S

_singlequote(S, c) == [S EXCEPT !.arg_list = Append(@, S.arg), !.arg = <<>>]

_doublequote(S, c) == [S EXCEPT !.arg_list = Append(@, S.arg), !.arg = <<>>]

\* the argument list kept after the callback got it
_doit_KeepList(S, c) ==
    LET A == IF S.arg # <<>>
             THEN [S EXCEPT !.arg_list = Append(@, S.arg), !.arg = <<>>]
             ELSE S
    IN [A EXCEPT !.delivered = Append(@, A.arg_list)]

\* the callback gets the argument list; delivered is the record of its calls
_doit(S, c) ==
    LET A == IF S.arg # <<>>
             THEN [S EXCEPT !.arg_list = Append(@, S.arg), !.arg = <<>>]
             ELSE S
    IN [A EXCEPT !.delivered = Append(@, A.arg_list), !.arg_list = <<>>]

\* action(input_symbol, self) for the action a transition names
DoAction(action, S, c) ==
    CASE action = "_addtext"     -> _addtext(S, c)
      [] action = "_wordbreak"   -> _wordbreak(S, c)
      [] action = "_doit"        -> _doit(S, c)
      [] action = "_slashescape" -> _slashescape(S, c)
      [] action = "_startvar"    -> _startvar(S, c)
      [] action = "_vartext"     -> _vartext(S, c)
      [] action = "_endvar"      -> _endvar(S, c)
      [] action = "_endvarbrace" -> _endvarbrace(S, c)
      [] action = "_singlequote" -> _singlequote(S, c)
      [] action = "_doublequote" -> _doublequote(S, c)
      [] action = "_error"       -> _error(S, c)

\* FSM.process: run the action, if any, then move to the next state
process(S, c) ==
    LET t == get_transition(c, S.current_state)
        A == IF t.action = "None" THEN S ELSE DoAction(t.action, S, c)
    IN [A EXCEPT !.current_state = t.to]

----------------------------------------------------------------------------
(* ShellParser.feed.  The log lists the process calls of the feed, each    *)
(* with the session before and after it and whether its symbol came from   *)
(* the text or from the pushback stack.                                    *)

Entry(src, c, P, Q) == [src |-> src, sym |-> c, pre |-> P, post |-> Q]

\* the one element of a singleton set; Only({e(x) : x \in {v}}) is e of the
\* value of v, with v evaluated once
Only(set) == CHOOSE x \in set : TRUE

\* one self._fsm.process(c) of the loop; R holds the session s, the count i
\* of symbols of the text done and the log
Step(R, src, c) ==
    Only({ [R EXCEPT !.s = Q, !.log = Append(@, Entry(src, c, R.s, Q))] :
           Q \in {process(R.s, c)} })

\* a feed loop that leaves the stack as it is
Drain_Skip(R0) == R0

\* while self._fsm.stack: self._fsm.process(self._fsm.pop())
RECURSIVE Drain(_)
Drain(R0) ==
    Only({ IF R.s.stack = <<>>
           THEN R
           ELSE Drain(Step([R EXCEPT !.s = pop(R.s)], "pushback", Top(R.s))) :
           R \in {R0} })

\* for c in text: process(c); drain; i += 1
RECURSIVE FeedLoop(_, _)
FeedLoop(R0, text) ==
    Only({ IF R.i = Len(text)
           THEN R
           ELSE FeedLoop([Drain(Step(R, "text", text[R.i + 1]))
                             EXCEPT !.i = @ + 1], text) :
           R \in {R0} })

\* text = self._buf + text; i = 0; the loop
FeedRun(S, text) == FeedLoop([s |-> S, i |-> 0, log |-> <<>>], S.buf \o text)

\* the whole text kept in the buffer when the feed ends outside the base state
FeedEnd_KeepText(S, text, R) ==
    IF R.s.current_state # 0
    THEN [R.s EXCEPT !.buf = S.buf \o text]
    ELSE R.s

\* the last symbol kept in the buffer when the feed ends outside the base
\* state
FeedEnd_KeepLast(S, text, R) ==
    IF R.s.current_state # 0
    THEN [R.s EXCEPT !.buf = SliceFrom(S.buf \o text, R.i - 1)]
    ELSE R.s

\* if self._fsm.current_state: self._buf = text[i:]
FeedEnd(S, text, R) ==
    IF R.s.current_state # 0
    THEN [R.s EXCEPT !.buf = SliceFrom(S.buf \o text, R.i)]
    ELSE R.s

\* the session after feed(text)
feed(S, text) == FeedEnd(S, text, FeedRun(S, text))

\* whether the automaton left the base state, not the state itself
FeedReturn_Flag(R) == IF R.s.current_state # 0 THEN 1 ELSE 0

\* return self._fsm.current_state
FeedReturn(R) == R.s.current_state

\* ShellParser.reset: arg_list and _buf are cleared (and states and _argv,
\* which nothing reads, are set); self._fsm is not touched
reset(S) == [S EXCEPT !.arg_list = <<>>, !.buf = <<>>]

----------------------------------------------------------------------------
(* TimespecParser (aid/pycopia/timespec.py): the table its __init__        *)
(* registers, its callbacks and parse.  A number of seconds is an integer  *)
(* count of 1/Scale seconds, so that the decimal numerals of the inputs    *)
(* are exact.  A callback that raises leaves the exception in the field    *)
(* exc of the parser record, and nothing runs after it.                    *)

\* textutils.digits, textutils.letters, textutils.whitespace
digits == {"0", "1", "2", "3", "4", "5", "6", "7", "8", "9"}

letters == VARNAME \ (digits \cup {"_", "?"})

whitespace == {" ", "\t", "\n", "\r", "\f", "<VT>"}

\* the resolution of a number of seconds: three decimal places, more than
\* any numeral of the inputs has
Scale == 10 ^ 3

\* _MULTIPLIERS
_MULTIPLIERS == [c \in {"d", "h", "m", "s"} |->
                   CASE c = "d" -> 86400
                     [] c = "h" -> 3600
                     [] c = "m" -> 60
                     [] c = "s" -> 1]

\* the add_transition_list calls of TimespecParser.__init__, in order
TimeRegistered == <<
    T(digits \cup {"+", "-"}, 0, "_newdigit", 1),
    T(digits, 1, "_addtext", 1),
    T({"."}, 1, "_addtext", 2),
    T(digits, 2, "_addtext", 2),
    T({"d", "h", "m", "s"}, 1, "_multiplier", 3),
    T({"d", "h", "m", "s"}, 2, "_multiplier", 3),
    T(letters, 3, "None", 3),
    T(whitespace, 3, "None", 3),
    T(digits \cup {"+", "-"}, 3, "_newdigit", 1) >>

\* the table with a second "." accepted among the fractional digits
TimeTransitions_SecondDot ==
    TimeRegistered \o << T({"."}, 2, "_addtext", 2) >>

\* the table with letters and whitespace skipped before the first group
TimeTransitions_JunkFirst ==
    TimeRegistered \o << T(letters \cup whitespace, 0, "None", 0) >>

\* the table with a unit letter applied again after a unit letter
TimeTransitions_UnitAgain ==
    TimeRegistered \o << T({"d", "h", "m", "s"}, 3, "_multiplier", 3) >>

TimeTransitions == TimeRegistered

\* a default transition that skips the symbol
TimeDefault_Skip == [action |-> "None", to |-> 0]

\* f.add_default_transition(self._error, 0)
TimeDefault == [action |-> "_error", to |-> 0]

TimeLastMatch(sym, state) ==
    LET hits == {i \in DOMAIN TimeTransitions :
                    /\ TimeTransitions[i].from = state
                    /\ sym \in TimeTransitions[i].syms}
    IN IF hits = {} THEN 0 ELSE CHOOSE i \in hits : \A j \in hits : j <= i

\* FSM.get_transition on the table of the duration parser
time_get_transition(sym, state) ==
    LET exact == TimeLastMatch(sym, state)
        any == TimeLastMatch(ANY, state)
    IN IF exact # 0
       THEN [action |-> TimeTransitions[exact].action,
             to |-> TimeTransitions[exact].to]
       ELSE IF any # 0
       THEN [action |-> TimeTransitions[any].action,
             to |-> TimeTransitions[any].to]
       ELSE TimeDefault

\* no exception, the ValueError of _error, the ValueError of float
NoExc == [kind |-> "none", value |-> 0, sym |-> ""]
ParserError(c) == [kind |-> "TimeParser error", value |-> 0, sym |-> c]
FloatError(c) == [kind |-> "float error", value |-> 0, sym |-> c]
Returned(v) == [kind |-> "ok", value |-> v, sym |-> ""]

\* float(s) of a numeral: an optional sign, digits with at most one ".",
\* one digit at least; anything else raises
Unsigned(a) == IF a # <<>> /\ a[1] \in {"+", "-"} THEN Tail(a) ELSE a

IsNumeral(a) ==
    LET u == Unsigned(a)
    IN /\ \A i \in DOMAIN u : u[i] \in digits \cup {"."}
       /\ Cardinality({i \in DOMAIN u : u[i] = "."}) <= 1
       /\ \E i \in DOMAIN u : u[i] \in digits

DigitValue(c) ==
    CHOOSE n \in 0..9 : <<"0","1","2","3","4","5","6","7","8","9">>[n + 1] = c

RECURSIVE Decimal(_)
Decimal(ds) ==
    IF ds = <<>> THEN 0
    ELSE 10 * Decimal(SubSeq(ds, 1, Len(ds) - 1)) + DigitValue(ds[Len(ds)])

float(a) ==
    LET u == Unsigned(a)
        dots == {i \in DOMAIN u : u[i] = "."}
        dot == IF dots = {} THEN Len(u) + 1 ELSE CHOOSE i \in dots : TRUE
        whole == Decimal(SubSeq(u, 1, dot - 1))
        frac == SubSeq(u, dot + 1, Len(u))
        magnitude == whole * Scale + (Decimal(frac) * Scale) \div (10 ^ Len(frac))
    IN IF a # <<>> /\ a[1] = "-" THEN 0 - magnitude ELSE magnitude

\* TimespecParser._error: fsm.reset(), raise ValueError
time_error(X, c) == [fsm_reset(X) EXCEPT !.exc = ParserError(c)]

\* TimespecParser._addtext
time_addtext(X, c) == [X EXCEPT !.arg = Append(@, c)]

\* TimespecParser._newdigit
time_newdigit(X, c) == [X EXCEPT !.arg = <<c>>]

\* the product replaces the total
time_multiplier_Assign(X, c) ==
    IF IsNumeral(X.arg)
    THEN [X EXCEPT !.arg = <<>>, !.seconds = float(X.arg) * _MULTIPLIERS[c]]
    ELSE [X EXCEPT !.exc = FloatError(c)]

\* TimespecParser._multiplier
time_multiplier(X, c) ==
    IF IsNumeral(X.arg)
    THEN [X EXCEPT !.arg = <<>>,
                   !.seconds = @ + float(X.arg) * _MULTIPLIERS[c]]
    ELSE [X EXCEPT !.exc = FloatError(c)]

TimeAction(action, X, c) ==
    CASE action = "_error"      -> time_error(X, c)
      [] action = "_addtext"    -> time_addtext(X, c)
      [] action = "_newdigit"   -> time_newdigit(X, c)
      [] action = "_multiplier" -> time_multiplier(X, c)

\* FSM.process: run the action, if any, then move to the next state; an
\* action that raises leaves the state as it was set before the raise
time_process(X, c) ==
    LET t == time_get_transition(c, X.current_state)
        A == IF t.action = "None" THEN X ELSE TimeAction(t.action, X, c)
    IN IF A.exc # NoExc THEN A ELSE [A EXCEPT !.current_state = t.to]

\* FSM.process_string: process every symbol of s, in order
RECURSIVE process_string(_, _)
process_string(R0, s) ==
    Only({ IF R.i = Len(s) \/ R.x.exc # NoExc
           THEN R
           ELSE process_string(
                    Only({ [x |-> Q, i |-> R.i + 1,
                            log |-> Append(R.log,
                                      Entry("text", s[R.i + 1], R.x, Q))] :
                           Q \in {time_process(R.x, s[R.i + 1])} }), s) :
           R \in {R0} })

\* the total of the call before is kept
ParseRun_KeepTotal(P, string) ==
    process_string(
        [x |-> [current_state |-> fsm_reset(P).current_state,
                arg |-> fsm_reset(P).arg, stack |-> fsm_reset(P).stack,
                seconds |-> P.seconds, exc |-> NoExc],
         i |-> 0, log |-> <<>>], string)

\* parse, lines 64-66: self._fsm.reset(); self._seconds = 0.0;
\* self._fsm.process_string(string)
ParseRun(P, string) ==
    process_string(
        [x |-> [current_state |-> fsm_reset(P).current_state,
                arg |-> fsm_reset(P).arg, stack |-> fsm_reset(P).stack,
                seconds |-> 0, exc |-> NoExc],
         i |-> 0, log |-> <<>>], string)

\* the number left at the end is added and stays in the accumulator
ParseEnd_KeepArg(X) ==
    IF X.exc # NoExc \/ X.arg = <<>> THEN X
    ELSE IF IsNumeral(X.arg)
    THEN [X EXCEPT !.seconds = @ + float(X.arg)]
    ELSE [X EXCEPT !.exc = FloatError("")]

\* parse, lines 67-69: if self._fsm.arg: add float(arg), clear arg
ParseEnd(X) ==
    IF X.exc # NoExc \/ X.arg = <<>> THEN X
    ELSE IF IsNumeral(X.arg)
    THEN [X EXCEPT !.seconds = @ + float(X.arg), !.arg = <<>>]
    ELSE [X EXCEPT !.exc = FloatError("")]

\* what the call gives its caller: the exception, or return self._seconds
Outcome(X) == IF X.exc # NoExc THEN X.exc ELSE Returned(X.seconds)

\* parse(string) on the parser P: the parser after it and the outcome
parse(P, string) ==
    Only({ [x |-> ParseEnd(R.x), log |-> R.log] : R \in {ParseRun(P, string)} })

----------------------------------------------------------------------------
(* TimeMarksGenerator and TimeRepeater (aid/pycopia/timespec.py).  The     *)
(* generator is the record of its frame: where it stands in the list, its  *)
(* locals last, lastlast, p and tmi, and the marks it has yielded.         *)

\* TimespecParser(): a parser just constructed
TimespecParser ==
    [current_state |-> 0, arg |-> <<>>, stack |-> <<>>, seconds |-> 0]

\* the parser a parse call leaves behind
ParserOf(X) ==
    [current_state |-> X.current_state, arg |-> X.arg, stack |-> X.stack,
     seconds |-> X.seconds]

\* str.split(sep): the pieces between the separators, one at least
RECURSIVE split(_, _)
split(str, sep) ==
    LET at == {i \in DOMAIN str : str[i] = sep}
        first == CHOOSE i \in at : \A j \in at : i <= j
    IN IF at = {} THEN <<str>>
       ELSE <<SubSeq(str, 1, first - 1)>>
                \o split(SubSeq(str, first + 1, Len(str)), sep)

\* str.strip(): without the whitespace at both ends
strip(str) ==
    LET keep == {i \in DOMAIN str : str[i] \notin whitespace}
    IN IF keep = {} THEN <<>>
       ELSE SubSeq(str, CHOOSE i \in keep : \A j \in keep : i <= j,
                        CHOOSE i \in keep : \A j \in keep : j <= i)

\* [s.strip() for s in timespecs.split(",")]
Marks(ts) == [i \in DOMAIN split(ts, ",") |-> strip(split(ts, ",")[i])]

\* the entry "..."
Ellipsis == <<".", ".", ".">>

\* TimeRepeater.__init__
TimeRepeater(start, step) == [current |-> start, step |-> step]

\* TimeRepeater.__next__: the repeater after it; it returns its current
TimeRepeater_next(t) == [t EXCEPT !.current = @ + t.step]

\* TimeMarksGenerator(timespecs): the generator before its first mark
NewGenerator ==
    [mode |-> "listing", pos |-> 0, last |-> 0, lastlast |-> 0,
     p |-> TimespecParser, tmi |-> TimeRepeater(0, 0), yielded |-> <<>>]

\* yield next(tmi)
Repeat(G) ==
    [G EXCEPT !.tmi = TimeRepeater_next(@),
              !.yielded = Append(@, TimeRepeater_next(G.tmi).current)]

\* the step is the last value itself
StartRepeater_FromZero(G) ==
    [G EXCEPT !.mode = "repeating", !.tmi = TimeRepeater(G.last, G.last)]

\* delta = last - lastlast; tmi = TimeRepeater(last, delta)
StartRepeater(G) ==
    [G EXCEPT !.mode = "repeating",
              !.tmi = TimeRepeater(G.last, G.last - G.lastlast)]

\* the mark yielded is the running sum of the entries
Listed_RunningSum(G, R) ==
    IF R.x.exc # NoExc
    THEN [G EXCEPT !.mode = "raised", !.p = ParserOf(R.x)]
    ELSE [G EXCEPT !.p = ParserOf(R.x), !.lastlast = G.last,
                   !.last = G.last + R.x.seconds,
                   !.yielded = Append(@, G.last + R.x.seconds),
                   !.pos = @ + 1]

\* the else branch, R being what p.parse(mark) gave: secs = p.seconds,
\* lastlast = last, last = secs, yield secs; a parse that raises ends the
\* generator with its exception
Listed(G, R) ==
    IF R.x.exc # NoExc
    THEN [G EXCEPT !.mode = "raised", !.p = ParserOf(R.x)]
    ELSE [G EXCEPT !.p = ParserOf(R.x), !.lastlast = G.last,
                   !.last = R.x.seconds,
                   !.yielded = Append(@, R.x.seconds),
                   !.pos = @ + 1]

\* "..." yields one further mark and the loop goes on with the next entry
gen_next_RepeatOnce(G, marks) ==
    IF G.mode # "listing" THEN G
    ELSE IF G.pos = Len(marks) THEN [G EXCEPT !.mode = "done"]
    ELSE IF marks[G.pos + 1] = Ellipsis
    THEN [Repeat(StartRepeater(G)) EXCEPT !.mode = "listing", !.pos = @ + 1]
    ELSE Only({ Listed(G, R) : R \in {parse(G.p, marks[G.pos + 1])} })

\* next(generator): resume the body until its next yield, its end or its
\* exception
gen_next(G, marks) ==
    IF G.mode = "repeating" THEN Repeat(G)
    ELSE IF G.mode # "listing" THEN G
    ELSE IF G.pos = Len(marks) THEN [G EXCEPT !.mode = "done"]
    ELSE IF marks[G.pos + 1] = Ellipsis THEN Repeat(StartRepeater(G))
    ELSE Only({ Listed(G, R) : R \in {parse(G.p, marks[G.pos + 1])} })

----------------------------------------------------------------------------
(* RebootDetector (net/pycopia/ping.py).  The record of a go call holds    *)
(* its locals state, isreachable and r_retries, how it ended, and what was *)
(* seen of it: the answers of pinger.reachable, in order, and for each     *)
(* call of the callback the number of answers seen before it.  The pinger  *)
(* answers as it likes.                                                    *)

\* RebootDetector.UNKNOWN, REACHABLE, NOTREACHABLE, REACHABLE2
UNKNOWN == 0
REACHABLE == 1
NOTREACHABLE == 2
REACHABLE2 == 3

\* go, lines 238-240, nothing probed yet
StartGo ==
    [state |-> UNKNOWN, isreachable |-> FALSE, r_retries |-> 0,
     result |-> "running", observed |-> <<>>, called |-> <<>>]

\* a go call that has not been made
NoGo == [StartGo EXCEPT !.result = "none"]

\* return state == RebootDetector.REACHABLE2
ReturnOf(state) == IF state = REACHABLE2 THEN "True" ELSE "False"

\* the loop is left by a break, and go returns
Raise_Break(D) == [D EXCEPT !.result = ReturnOf(D.state)]

\* raise RebootDetectorError
Raise(D) == [D EXCEPT !.result = "RebootDetectorError"]

\* the branch of UNKNOWN, the pinger answering r, and on to the branch of
\* REACHABLE, which sets r_retries = pinger.retries
probe_unknown(D, r, cb, n) ==
    IF r
    THEN [D EXCEPT !.isreachable = r, !.observed = Append(@, r),
                   !.state = REACHABLE, !.r_retries = n,
                   !.called = IF cb THEN Append(@, Len(D.observed) + 1) ELSE @]
    ELSE Raise([D EXCEPT !.isreachable = r, !.observed = Append(@, r)])

\* one round of  while isreachable  in the branch of REACHABLE; when the
\* loop ends, on to the branch of NOTREACHABLE
probe_reachable(D, r, n) ==
    IF D.r_retries - 1 = 0
    THEN Raise([D EXCEPT !.isreachable = r, !.observed = Append(@, r),
                         !.r_retries = @ - 1])
    ELSE IF r
    THEN [D EXCEPT !.isreachable = r, !.observed = Append(@, r),
                   !.r_retries = @ - 1]
    ELSE [D EXCEPT !.isreachable = r, !.observed = Append(@, r),
                   !.state = NOTREACHABLE, !.r_retries = n]

\* one round of  while not isreachable  in the branch of NOTREACHABLE; when
\* the loop ends: state = REACHABLE2, break, return state == REACHABLE2
probe_notreachable(D, r) ==
    IF D.r_retries - 1 = 0
    THEN Raise([D EXCEPT !.isreachable = r, !.observed = Append(@, r),
                         !.r_retries = @ - 1])
    ELSE IF ~r
    THEN [D EXCEPT !.isreachable = r, !.observed = Append(@, r),
                   !.r_retries = @ - 1]
    ELSE [D EXCEPT !.isreachable = r, !.observed = Append(@, r),
                   !.state = REACHABLE2, !.r_retries = @ - 1,
                   !.result = ReturnOf(REACHABLE2)]

----------------------------------------------------------------------------
(* ConfigHolder (core/pycopia/basicconfig.py): a dictionary and its lock.  *)
(* An operation gives the holder after it and the exception it raised.     *)

\* the keys and the values callers use
Keys == {"a", "b", "c"}
Values == {1, 2}

NoError == "none"

\* a dictionary without keys
EmptyItems == [k \in {} |-> 0]

Done(H) == [h |-> H, exc |-> NoError]

\* ConfigHolder(init)
ConfigHolder(init) == [items |-> init, locked |-> 0]

\* a locked holder takes new keys
setitem_Unguarded(H, key, value) ==
    Done([H EXCEPT !.items = (key :> value) @@ @])

\* ConfigHolder.__setitem__
setitem(H, key, value) ==
    IF H.locked # 0 /\ key \notin DOMAIN H.items
    THEN [h |-> H, exc |-> "ConfigLockError"]
    ELSE Done([H EXCEPT !.items = (key :> value) @@ @])

\* __setattr__ = __setitem__
setattr(H, key, value) == setitem(H, key, value)

\* ConfigHolder.__delitem__
delitem(H, key) ==
    IF key \notin DOMAIN H.items
    THEN [h |-> H, exc |-> "KeyError"]
    ELSE Done([H EXCEPT !.items = [k \in DOMAIN @ \ {key} |-> @[k]]])

\* ConfigHolder.lock, unlock, islocked
lock(H) == [H EXCEPT !.locked = 1]
unlock(H) == [H EXCEPT !.locked = 0]
islocked(H) == H.locked

\* ConfigHolder.copy
copy(H) ==
    IF islocked(H) # 0 THEN lock(ConfigHolder(H.items))
    ELSE ConfigHolder(H.items)

----------------------------------------------------------------------------
(* The session as a record, and the state machine. *)

Session ==
    [current_state |-> current_state, arg |-> arg, varname |-> varname,
     stack |-> stack, arg_list |-> arg_list, buf |-> buf,
     delivered |-> delivered, errors |-> errors]

\* ShellParser.__init__: reset() and _init()
Fresh ==
    [current_state |-> 0, arg |-> <<>>, varname |-> <<>>, stack |-> <<>>,
     arg_list |-> <<>>, buf |-> <<>>, delivered |-> <<>>, errors |-> <<>>]

Becomes(S0) ==
    \E S \in {S0} :
    /\ current_state' = S.current_state
    /\ arg' = S.arg
    /\ varname' = S.varname
    /\ stack' = S.stack
    /\ arg_list' = S.arg_list
    /\ buf' = S.buf
    /\ delivered' = S.delivered
    /\ errors' = S.errors

Texts(n) == UNION {[1..k -> Alphabet] : k \in 1..n}

Chunks == Texts(MaxChunk)

\* the texts a caller may hold and feed, cut into chunks anywhere
EchoScript ==
    <<"e","c","h","o"," ","\"","a"," ","b","\""," ","'","c"," ","d","'"," ",
      "$","H","O","M","E","\n">>

EscapeScript == <<"a","\\","t","b","\n">>

UndefScript == <<"a","$","{","U","}","b"," ","\"","$","U"," ","c","\"","\n">>

MidBraceScript == <<"$","H","O","{","M","E","}","\n">>

Scripts ==
    { EchoScript,
      EscapeScript,
      <<"e","c","h","o"," ","x","\n">>,
      <<"e","c","h","o"," ","x",";">>,
      <<"\"","$","H","O","M","E"," ","x","\"",";","l","s","\n">>,
      UndefScript,
      <<"$","{","H","O","M","E","}","/","x",";","'","a",";","b","'","\n">>,
      MidBraceScript,
      <<"a","\\"," ","b","\\","\n","c"," ","\"","\\","n","\\","\"","\"","\n">> }

InitSession ==
    /\ current_state = Fresh.current_state
    /\ arg = Fresh.arg
    /\ varname = Fresh.varname
    /\ stack = Fresh.stack
    /\ arg_list = Fresh.arg_list
    /\ buf = Fresh.buf
    /\ delivered = Fresh.delivered
    /\ errors = Fresh.errors
    /\ fed = <<>>
    /\ plog = <<>>
    /\ mark = [fed |-> 0, delivered |-> 0]
    /\ ret = -1

\* TimespecParser.__init__
InitParser ==
    /\ t_state = 0
    /\ t_arg = <<>>
    /\ t_stack = <<>>
    /\ seconds = 0
    /\ result = NoExc
    /\ parsed = <<>>
    /\ prior = "none"
    /\ tlog = <<>>

\* TimeMarksGenerator(ts), no mark requested yet
InitGenerator(ts) ==
    /\ timespecs = ts
    /\ gen = NewGenerator
    /\ requests = 0

\* RebootDetector(target, retries=n), go not called yet
InitDetector(n) ==
    /\ det = NoGo
    /\ retries = n
    /\ callback = FALSE
    /\ goes = 0

\* the operation a holder just made has had: none
NoOp ==
    [op |-> "none", key |-> "", value |-> 0, pre |-> ConfigHolder(EmptyItems),
     exc |-> NoError, copy |-> ConfigHolder(EmptyItems)]

\* ConfigHolder(init)
InitHolder(init) ==
    /\ holder = ConfigHolder(init)
    /\ lastop = NoOp
    /\ atlock = {}

\* the objects a specification leaves alone, just constructed
InitRest == InitDetector(1) /\ InitHolder(EmptyItems)

\* ShellParser.interact before its first prompt
InitInteract ==
    /\ prompt = "ps1"
    /\ typed = 0

\* the value None, and an argument vector, as what _argv holds
None == [kind |-> "None", value |-> <<>>]
Vector(argv) == [kind |-> "vector", value |-> argv]

\* CommandSplitter.__init__; feedline not called yet
InitSplitter ==
    /\ _argv = None
    /\ returned = None
    /\ calls = 0

\* the job runners
Runners == {"r1", "r2"}

\* JobRunnerInterface.__call__ at the top of its loop, at the first job of
\* its list, and no lock file
InitJobs ==
    /\ pc = [r \in Runners |-> "loop"]
    /\ jobpos = [r \in Runners |-> 1]
    /\ lockfiles = {}

\* the callers a specification leaves alone
InitOther == InitInteract /\ InitSplitter /\ InitJobs

\* the caller holds a script to feed, or nothing and feeds symbols freely
Init ==
    /\ InitSession
    /\ pending \in Scripts \cup {<<>>}
    /\ InitParser
    /\ InitGenerator(<<>>)
    /\ InitRest
    /\ InitOther

\* a caller without a script calls feed(text)
Feed(text) ==
    /\ pending = <<>>
    /\ Len(fed) + Len(text) <= MaxFed
    /\ \E R \in {FeedRun(Session, text)} :
          /\ Becomes(FeedEnd(Session, text, R))
          /\ plog' = R.log
          /\ ret' = FeedReturn(R)
    /\ fed' = fed \o text
    /\ UNCHANGED <<pending, mark, tvars, mvars, rvars, cvars, ovars>>

\* the caller calls feed with the next k symbols of the script it holds
FeedScript(k) ==
    /\ k <= Len(pending)
    /\ \E R \in {FeedRun(Session, SubSeq(pending, 1, k))} :
          /\ Becomes(FeedEnd(Session, SubSeq(pending, 1, k), R))
          /\ plog' = R.log
          /\ ret' = FeedReturn(R)
    /\ fed' = fed \o SubSeq(pending, 1, k)
    /\ pending' = SubSeq(pending, k + 1, Len(pending))
    /\ UNCHANGED <<mark, tvars, mvars, rvars, cvars, ovars>>

\* the chunks a caller may pass now: none while it holds a script, and none
\* longer than what it may still feed
Feedable ==
    IF pending # <<>> THEN {}
    ELSE IF MaxFed - Len(fed) < MaxChunk THEN Texts(MaxFed - Len(fed))
    ELSE Chunks

Next ==
    \/ \E text \in Feedable : Feed(text)
    \/ \E k \in 1..Len(pending) : FeedScript(k)

Spec == Init /\ [][Next]_vars

\* the caller calls reset(): text fed and vectors delivered from now on are
\* those after the mark
Reset ==
    /\ Becomes(reset(Session))
    /\ mark' = [fed |-> Len(fed), delivered |-> Len(delivered)]
    /\ UNCHANGED <<fed, pending, plog, ret, tvars, mvars, rvars, cvars, ovars>>

NextReset == Next \/ Reset

\* the tokenizer with a caller that also calls reset() between feeds
SpecReset == Init /\ [][NextReset]_vars

----------------------------------------------------------------------------
(* The duration parser as a state machine: one instance, parse called      *)
(* again and again on it.                                                  *)

\* longest string a caller passes that is not one of the examples
MaxTime == 3

\* the symbols of such a string
TimeAlphabet == {"1", ".", "-", "h", "m", "x", " ", "!"}

TimeTexts == {<<>>} \cup UNION {[1..k -> TimeAlphabet] : k \in 1..MaxTime}

DayMinuteText == <<"1","d"," ","3","m">>
PlainText == <<"9","0">>
FractionText == <<"1",".","5","h">>
TwoDotsText == <<"1",".","2",".","3","d">>
TrailingText == <<"1","h","3","0">>
JunkAfterText == <<"3","h","o","u","r","s"," ","x","\t","2","m">>
JunkBeforeText == <<" ","1","h">>
UnitTwiceText == <<"1","m","s">>
HoursText == <<"3","h","o","u","r","s">>

\* the strings of the examples
TimeExamples ==
    { DayMinuteText, PlainText, FractionText, TwoDotsText, TrailingText,
      JunkAfterText, JunkBeforeText, UnitTwiceText, HoursText,
      <<>>,
      <<"x","1","h">>,
      <<"+","1",".","5","h","-","3","0","m">>,
      <<"1","h","-">>,
      <<"1","2","!">>,
      <<"2","m","3","0","s","!">> }

Parser ==
    [current_state |-> t_state, arg |-> t_arg, stack |-> t_stack,
     seconds |-> seconds]

\* how the latest call ended: in a number when it raised with a number in
\* the accumulator
Ended ==
    CASE result.kind = "none" -> "none"
      [] result.kind = "ok" -> "ok"
      [] OTHER -> IF tlog # <<>> /\ tlog[Len(tlog)].pre.arg # <<>>
                  THEN "raised in a number" ELSE "raised"

\* the caller calls parse(string); a string that is not an example follows
\* an example, or is the first
Parse(string) ==
    /\ string \in TimeExamples \/ result.kind = "none" \/ parsed \in TimeExamples
    /\ \E R \in {parse(Parser, string)} :
          /\ t_state' = R.x.current_state
          /\ t_arg' = R.x.arg
          /\ t_stack' = R.x.stack
          /\ seconds' = R.x.seconds
          /\ result' = Outcome(R.x)
          /\ tlog' = R.log
    /\ parsed' = string
    /\ prior' = Ended
    /\ UNCHANGED <<shvars, mvars, rvars, cvars, ovars>>

NextTime == \E string \in TimeTexts \cup TimeExamples : Parse(string)

\* a fresh parser, beside a tokenizer nobody feeds
InitTime ==
    /\ InitSession
    /\ pending = <<>>
    /\ InitParser
    /\ InitGenerator(<<>>)
    /\ InitRest
    /\ InitOther

SpecTime == InitTime /\ [][NextTime]_vars

----------------------------------------------------------------------------
(* The generator of time marks as a state machine: a consumer asks for the *)
(* next mark again and again.                                              *)

\* most entries of a list that is not one of the examples
MaxMarks == 3
\* most requests a consumer makes
MaxRequests == 8

\* the entries of such a list
MarkEntries ==
    { <<"3","0","s">>, <<"1","m">>, <<" ","1","h"," ">>, Ellipsis,
      <<"x">>, <<>> }

RECURSIVE Joined(_)
Joined(entries) ==
    IF Len(entries) = 1 THEN entries[1]
    ELSE entries[1] \o <<",">> \o Joined(Tail(entries))

\* "30s,1m,1h,3h,4h,..."
RepeatingMarks ==
    Joined(<< <<"3","0","s">>, <<"1","m">>, <<"1","h">>, <<"3","h">>,
              <<"4","h">>, Ellipsis >>)

\* "1d, 3h,1h , 1.5h"
FiniteMarks ==
    Joined(<< <<"1","d">>, <<" ","3","h">>, <<"1","h"," ">>,
              <<" ","1",".","5","h">> >>)

MarkInputs ==
    {RepeatingMarks, FiniteMarks}
        \cup {Joined(l) : l \in UNION {[1..k -> MarkEntries] : k \in 1..MaxMarks}}

\* the consumer calls next() on the generator
NextMark ==
    /\ requests < MaxRequests
    /\ gen.mode \in {"listing", "repeating"}
    /\ gen' = gen_next(gen, Marks(timespecs))
    /\ requests' = requests + 1
    /\ UNCHANGED <<timespecs, shvars, tvars, rvars, cvars, ovars>>

NextMarks == NextMark

InitMarks ==
    /\ InitSession
    /\ pending = <<>>
    /\ InitParser
    /\ \E ts \in MarkInputs : InitGenerator(ts)
    /\ InitRest
    /\ InitOther

SpecMarks == InitMarks /\ [][NextMarks]_vars

----------------------------------------------------------------------------
(* The reboot detector as a state machine: go is called, and each answer   *)
(* of the pinger takes the call one round further.                         *)

\* largest pinger.retries
MaxRetries == 3
\* most go calls on one detector
MaxGoes == 2

\* go(callback) is called, a callback passed or not
Go(cb) ==
    /\ det.result # "running"
    /\ goes < MaxGoes
    /\ det' = StartGo
    /\ callback' = cb
    /\ goes' = goes + 1
    /\ UNCHANGED <<retries, shvars, tvars, mvars, cvars, ovars>>

\* pinger.reachable answers r in the branch of UNKNOWN
ProbeUnknown(r) ==
    /\ det.result = "running"
    /\ det.state = UNKNOWN
    /\ det' = probe_unknown(det, r, callback, retries)
    /\ UNCHANGED <<retries, callback, goes, shvars, tvars, mvars, cvars, ovars>>

\* pinger.reachable answers r in the branch of REACHABLE
ProbeReachable(r) ==
    /\ det.result = "running"
    /\ det.state = REACHABLE
    /\ det' = probe_reachable(det, r, retries)
    /\ UNCHANGED <<retries, callback, goes, shvars, tvars, mvars, cvars, ovars>>

\* pinger.reachable answers r in the branch of NOTREACHABLE
ProbeNotReachable(r) ==
    /\ det.result = "running"
    /\ det.state = NOTREACHABLE
    /\ det' = probe_notreachable(det, r)
    /\ UNCHANGED <<retries, callback, goes, shvars, tvars, mvars, cvars, ovars>>

NextReboot ==
    \/ \E cb \in BOOLEAN : Go(cb)
    \/ \E r \in BOOLEAN : ProbeUnknown(r)
    \/ \E r \in BOOLEAN : ProbeReachable(r)
    \/ \E r \in BOOLEAN : ProbeNotReachable(r)

InitReboot ==
    /\ InitSession
    /\ pending = <<>>
    /\ InitParser
    /\ InitGenerator(<<>>)
    /\ \E n \in 1..MaxRetries : InitDetector(n)
    /\ InitHolder(EmptyItems)
    /\ InitOther

SpecReboot == InitReboot /\ [][NextReboot]_vars

----------------------------------------------------------------------------
(* The configuration holder as a state machine: callers assign, delete,    *)
(* lock, unlock and copy.                                                  *)

Op(name, key, value, R, made) ==
    [op |-> name, key |-> key, value |-> value, pre |-> holder,
     exc |-> R.exc, copy |-> made]

\* holder[key] = value
SetItem(key, value) ==
    /\ holder' = setitem(holder, key, value).h
    /\ lastop' = Op("setitem", key, value, setitem(holder, key, value),
                    NoOp.copy)
    /\ UNCHANGED <<atlock, shvars, tvars, mvars, rvars, ovars>>

\* holder.key = value
SetAttr(key, value) ==
    /\ holder' = setattr(holder, key, value).h
    /\ lastop' = Op("setattr", key, value, setattr(holder, key, value),
                    NoOp.copy)
    /\ UNCHANGED <<atlock, shvars, tvars, mvars, rvars, ovars>>

\* del holder[key]
DelItem(key) ==
    /\ holder' = delitem(holder, key).h
    /\ lastop' = Op("delitem", key, 0, delitem(holder, key), NoOp.copy)
    /\ UNCHANGED <<atlock, shvars, tvars, mvars, rvars, ovars>>

\* holder.lock()
Lock ==
    /\ holder' = lock(holder)
    /\ lastop' = Op("lock", "", 0, Done(holder), NoOp.copy)
    /\ atlock' = DOMAIN holder.items
    /\ UNCHANGED <<shvars, tvars, mvars, rvars, ovars>>

\* holder.unlock()
Unlock ==
    /\ holder' = unlock(holder)
    /\ lastop' = Op("unlock", "", 0, Done(holder), NoOp.copy)
    /\ atlock' = {}
    /\ UNCHANGED <<shvars, tvars, mvars, rvars, ovars>>

\* holder.copy()
Copy ==
    /\ lastop' = Op("copy", "", 0, Done(holder), copy(holder))
    /\ UNCHANGED <<holder, atlock, shvars, tvars, mvars, rvars, ovars>>

NextConfig ==
    \/ \E key \in Keys, value \in Values : SetItem(key, value)
    \/ \E key \in Keys, value \in Values : SetAttr(key, value)
    \/ \E key \in Keys : DelItem(key)
    \/ Lock
    \/ Unlock
    \/ Copy

InitConfig ==
    /\ InitSession
    /\ pending = <<>>
    /\ InitParser
    /\ InitGenerator(<<>>)
    /\ InitDetector(1)
    /\ \E K \in SUBSET Keys : InitHolder([k \in K |-> 1])
    /\ InitOther

SpecConfig == InitConfig /\ [][NextConfig]_vars

----------------------------------------------------------------------------
(* The callers of the tokenizer as state machines: the interactive mode    *)
(* (ShellParser.interact) and the command splitter (CommandSplitter).      *)

\* longest line a user types
MaxLine == 2
\* most lines a user types, and most feedline calls on a splitter
MaxLines == 2

\* the symbols of a line; input() gives a line without its newline
LineAlphabet == {"t", ";", "'"}

Lines == {<<>>} \cup UNION {[1..k -> LineAlphabet] : k \in 1..MaxLine}

\* self.feed(text) called by interact or feedline
CallFeed(text) ==
    /\ \E R \in {FeedRun(Session, text)} :
          /\ Becomes(FeedEnd(Session, text, R))
          /\ plog' = R.log
          /\ ret' = FeedReturn(R)
          /\ prompt' = IF FeedReturn(R) # 0 THEN "ps2" ELSE "ps1"
    /\ fed' = fed \o text
    /\ UNCHANGED <<pending, mark>>

\* line = input(ps1): an empty line is passed over, another is fed with a
\* newline added; while feed returns non-zero the next prompt is ps2
TypeLine(line) ==
    /\ prompt = "ps1"
    /\ typed < MaxLines
    /\ typed' = typed + 1
    /\ IF line = <<>>
       THEN UNCHANGED <<shvars, prompt>>
       ELSE CallFeed(line \o <<"\n">>)
    /\ UNCHANGED <<tvars, mvars, rvars, cvars, svars, jvars>>

\* line = input(ps2): the line is fed as it is
TypeMore(line) ==
    /\ prompt = "ps2"
    /\ typed < MaxLines
    /\ typed' = typed + 1
    /\ CallFeed(line)
    /\ UNCHANGED <<tvars, mvars, rvars, cvars, svars, jvars>>

\* EOFError or KeyboardInterrupt at a prompt: print() and return
EndOfInput ==
    /\ prompt \in {"ps1", "ps2"}
    /\ prompt' = "exited"
    /\ UNCHANGED <<typed, shvars, tvars, mvars, rvars, cvars, svars, jvars>>

NextInteract ==
    \/ \E line \in Lines : TypeLine(line)
    \/ \E line \in Lines : TypeMore(line)
    \/ EndOfInput

InitCallers ==
    /\ InitSession
    /\ pending = <<>>
    /\ InitParser
    /\ InitGenerator(<<>>)
    /\ InitRest
    /\ InitOther

SpecInteract == InitCallers /\ [][NextInteract]_vars

\* CommandSplitter.feedline(text): the parser is fed text and a newline, its
\* callback _cb sets _argv at each delivery, and _argv is returned
FeedLine(text) ==
    /\ calls < MaxLines
    /\ calls' = calls + 1
    /\ \E R \in {FeedRun(Session, text \o <<"\n">>)} :
          /\ Becomes(FeedEnd(Session, text \o <<"\n">>, R))
          /\ plog' = R.log
          /\ ret' = FeedReturn(R)
          /\ \E A \in {IF R.s.delivered # delivered
                        THEN Vector(R.s.delivered[Len(R.s.delivered)])
                        ELSE _argv} :
                /\ _argv' = A
                /\ returned' = A
    /\ fed' = fed \o text \o <<"\n">>
    /\ UNCHANGED <<pending, mark, tvars, mvars, rvars, cvars, ivars, jvars>>

NextSplitter == \E text \in Lines : FeedLine(text)

SpecSplitter == InitCallers /\ [][NextSplitter]_vars

----------------------------------------------------------------------------
(* The job runners (QA/pycopia/QA/jobrunner.py): two processes run         *)
(* JobRunnerInterface.__call__ on the same list of jobs in the same        *)
(* environment; a call on the file system is one step.                     *)

\* the jobs of the list are 1..MaxJobs
MaxJobs == 2

\* on to the next job of the list, or out of the loop
Advance(r) ==
    /\ jobpos' = [jobpos EXCEPT ![r] = @ + 1]
    /\ pc' = [pc EXCEPT ![r] = IF jobpos[r] + 1 > MaxJobs THEN "returned"
                               ELSE "loop"]

\* if self.is_job_running(testjob.id): continue
IsJobRunning(r) ==
    /\ pc[r] = "loop"
    /\ IF jobpos[r] \in lockfiles
       THEN Advance(r)
       ELSE pc' = [pc EXCEPT ![r] = "create"] /\ UNCHANGED jobpos
    /\ UNCHANGED <<lockfiles, shvars, tvars, mvars, rvars, cvars, ivars, svars>>

\* self.create_job_lock(testjob.id): open(lf, "w").close(), and into try
CreateJobLock(r) ==
    /\ pc[r] = "create"
    /\ lockfiles' = lockfiles \cup {jobpos[r]}
    /\ pc' = [pc EXCEPT ![r] = "running"]
    /\ UNCHANGED <<jobpos, shvars, tvars, mvars, rvars, cvars, ivars, svars>>

\* the body of try ends, by its last statement or by an exception
RunEnds(r, raised) ==
    /\ pc[r] = "running"
    /\ pc' = [pc EXCEPT ![r] = IF raised THEN "finally, raised" ELSE "finally"]
    /\ UNCHANGED <<jobpos, lockfiles, shvars, tvars, mvars, rvars, cvars,
                   ivars, svars>>

\* finally: self.remove_job_lock(testjob.id): os.unlink(lf), which raises
\* when the file is not there; an exception ends __call__
RemoveJobLock(r) ==
    /\ pc[r] \in {"finally", "finally, raised"}
    /\ lockfiles' = lockfiles \ {jobpos[r]}
    /\ IF pc[r] = "finally" /\ jobpos[r] \in lockfiles
       THEN Advance(r)
       ELSE pc' = [pc EXCEPT ![r] = "raised"] /\ UNCHANGED jobpos
    /\ UNCHANGED <<shvars, tvars, mvars, rvars, cvars, ivars, svars>>

NextJobs ==
    \/ \E r \in Runners : IsJobRunning(r)
    \/ \E r \in Runners : CreateJobLock(r)
    \/ \E r \in Runners, raised \in BOOLEAN : RunEnds(r, raised)
    \/ \E r \in Runners : RemoveJobLock(r)

SpecJobs == InitCallers /\ [][NextJobs]_vars

----------------------------------------------------------------------------
(* Vocabulary of the properties. *)

Terminators == {";", "\n"}

Whitespace == {" ", "\t"}

\* the states in which a quote opened by ' or " is still open
QuoteStates == {2, 3, 6, 8, 10}

\* the character an escaped symbol stands for
Escaped(c) ==
    CASE c = "r" -> "\r"
      [] c = "n" -> "\n"
      [] c = "t" -> "\t"
      [] c = "b" -> BACKSPACE
      [] OTHER -> c

\* the value of a variable: empty when the environment does not set it
ValueOf(name) ==
    CASE name = <<"H","O","M","E">> -> <<"/","h","o","m","e","/","u">>
      [] name = <<"H">> -> <<"/","u">>
      [] OTHER -> <<>>

\* the process calls of the latest feed
Calls == {plog[i] : i \in DOMAIN plog}

\* the number of symbols of the text the latest feed consumed
Consumed == Cardinality({i \in DOMAIN plog : plog[i].src = "text"})

\* a process call that leaves alone everything but the state
OnlyMoves(e) ==
    /\ e.post.arg = e.pre.arg
    /\ e.post.arg_list = e.pre.arg_list
    /\ e.post.delivered = e.pre.delivered
    /\ e.post.stack = e.pre.stack
    /\ e.post.errors = e.pre.errors

\* a process call that appends sym to the current token and does nothing else
Accumulates(e, sym, to) ==
    /\ e.post.arg = Append(e.pre.arg, sym)
    /\ e.post.current_state = to
    /\ e.post.arg_list = e.pre.arg_list
    /\ e.post.delivered = e.pre.delivered
    /\ e.post.stack = e.pre.stack
    /\ e.post.varname = e.pre.varname
    /\ e.post.errors = e.pre.errors

\* a process call that closes the current token, empty or not
ClosesToken(e, to) ==
    /\ e.post.arg_list = Append(e.pre.arg_list, e.pre.arg)
    /\ e.post.arg = <<>>
    /\ e.post.current_state = to
    /\ e.post.delivered = e.pre.delivered
    /\ e.post.stack = e.pre.stack
    /\ e.post.errors = e.pre.errors

----------------------------------------------------------------------------
(* C1: streaming equivalence.  However the text fed so far was cut into    *)
(* chunks, the vectors delivered and the automaton state are those of one  *)
(* feed of the whole text to a fresh tokenizer.                            *)
C1_StreamingEquivalence ==
    \E W \in {feed(Fresh, fed)} :
        /\ delivered = W.delivered
        /\ current_state = W.current_state

\* "ec" was fed, then "ho x\n", and the vector was delivered
C1_Witness ==
    /\ fed = <<"e","c","h","o"," ","x","\n">>
    /\ Consumed = 5
    /\ delivered = << << <<"e","c","h","o">>, <<"x">> >> >>

(* C2: the input  echo "a b" 'c d' $HOME  and a newline, HOME being        *)
(* /home/u, calls the callback exactly once, with the four arguments echo, *)
(* a b, c d and /home/u, and leaves the automaton in the base state.       *)
C2_EchoVector ==
    fed = EchoScript =>
        /\ delivered = << << <<"e","c","h","o">>, <<"a"," ","b">>,
                             <<"c"," ","d">>,
                             <<"/","h","o","m","e","/","u">> >> >>
        /\ current_state = 0

\* the whole input was fed in one call
C2_Witness ==
    /\ fed = EchoScript
    /\ Consumed = Len(EchoScript)
    /\ Len(delivered) = 1

(* C3: a process call delivers a vector only when it handles ; or newline  *)
(* in the base state; a ; or newline handled inside quotes or after a      *)
(* backslash is appended to the token, and one handled inside ${...} is    *)
(* appended to the name, with no delivery.                                 *)
C3_DeliveryOnlyInBaseState ==
    \A e \in Calls :
        /\ e.post.delivered # e.pre.delivered =>
              /\ e.pre.current_state = 0
              /\ e.sym \in Terminators
              /\ Len(e.post.delivered) = Len(e.pre.delivered) + 1
        /\ (e.sym \in Terminators /\ e.pre.current_state \in {1, 2, 3, 6}) =>
              /\ e.post.delivered = e.pre.delivered
              /\ e.post.arg = Append(e.pre.arg, e.sym)
              /\ e.post.arg_list = e.pre.arg_list
        /\ (e.sym \in Terminators /\ e.pre.current_state \in {9, 10}) =>
              /\ e.post.delivered = e.pre.delivered
              /\ e.post.varname = Append(e.pre.varname, e.sym)
              /\ e.post.arg = e.pre.arg
              /\ e.post.arg_list = e.pre.arg_list

\* one feed handled a ; inside single quotes and then delivered a vector
\* holding it
C3_Witness ==
    /\ \E e \in Calls : e.sym = ";" /\ e.pre.current_state = 2
    /\ \E e \in Calls :
          /\ e.post.delivered # e.pre.delivered
          /\ \E v \in {e.post.delivered[Len(e.post.delivered)]} :
                \E k \in DOMAIN v : \E j \in DOMAIN v[k] : v[k][j] = ";"

(* C4: terminator equivalence.  For a text s that leaves no quote open,    *)
(* s followed by ; and s followed by a newline, each fed to a fresh        *)
(* tokenizer, deliver the same vectors.                                    *)
C4_TerminatorEquivalence ==
    feed(Fresh, fed).current_state \notin QuoteStates =>
        feed(Fresh, Append(fed, ";")).delivered
            = feed(Fresh, Append(fed, "\n")).delivered

\* s is  echo x , and the terminator is what delivers its vector
C4_Witness ==
    /\ fed = <<"e","c","h","o"," ","x">>
    /\ delivered = <<>>
    /\ feed(Fresh, Append(fed, ";")).delivered
          = << << <<"e","c","h","o">>, <<"x">> >> >>

(* C5: escape processing.  A backslash in the base or double-quoted state  *)
(* only moves to the escape state; the one symbol handled there comes from *)
(* the text, is appended to the token (CR, LF, TAB, BACKSPACE for r, n, t, *)
(* b, itself otherwise) with no word break, delivery or pushback, and the  *)
(* automaton returns to the state the backslash was met in.                *)
C5_EscapeProcessing ==
    \A e \in Calls :
        /\ (e.sym = "\\" /\ e.pre.current_state \in {0, 3}) =>
              /\ OnlyMoves(e)
              /\ e.post.current_state = IF e.pre.current_state = 0 THEN 1 ELSE 6
        /\ e.pre.current_state \in {1, 6} =>
              /\ e.src = "text"
              /\ Accumulates(e, Escaped(e.sym),
                             IF e.pre.current_state = 1 THEN 0 ELSE 3)

\* a\tb and a newline delivered the one argument a<TAB>b
C5_Witness ==
    /\ fed = EscapeScript
    /\ delivered = << << <<"a", "\t", "b">> >> >>
    /\ \E e \in Calls : e.pre.current_state = 1 /\ e.sym = "t"

(* C6: inside single quotes every symbol but ' is appended to the token as *)
(* it is and the state stays single-quoted; the closing ' appends the      *)
(* token to the argument list, empty or not, and returns to the base state.*)
C6_SingleQuote ==
    \A e \in Calls :
        e.pre.current_state = 2 =>
            IF e.sym = "'"
            THEN ClosesToken(e, 0)
            ELSE Accumulates(e, e.sym, 2)

\* a closing quote appended an empty token
C6_Witness ==
    \E e \in Calls :
        /\ e.pre.current_state = 2
        /\ e.sym = "'"
        /\ e.pre.arg = <<>>
        /\ e.post.arg_list = Append(e.pre.arg_list, <<>>)

(* C7: inside double quotes " closes the token and returns to the base     *)
(* state, a backslash moves to the escape state 6, $ starts a name in      *)
(* state 8, and every other symbol is appended as it is; the escape state  *)
(* and the name states entered from double quotes never lead to the base   *)
(* state, and whitespace that ends a $NAME there is appended to the token. *)
C7_DoubleQuote ==
    /\ \A e \in Calls :
          /\ e.pre.current_state = 3 =>
                CASE e.sym = "\"" -> ClosesToken(e, 0)
                  [] e.sym = "\\" -> OnlyMoves(e) /\ e.post.current_state = 6
                  [] e.sym = "$" -> /\ OnlyMoves(e)
                                    /\ e.post.current_state = 8
                                    /\ e.post.varname = <<"$">>
                  [] OTHER -> Accumulates(e, e.sym, 3)
          /\ e.pre.current_state \in {6, 8, 10} =>
                e.post.current_state \in {3, 8, 10}
    /\ \A i \in DOMAIN plog :
          (plog[i].pre.current_state = 8 /\ plog[i].sym \in Whitespace) =>
              /\ i + 1 \in DOMAIN plog
              /\ plog[i + 1].src = "pushback"
              /\ plog[i + 1].sym = plog[i].sym
              /\ Accumulates(plog[i + 1], plog[i].sym, 3)

\* the space after "$HOME was appended to the value of HOME
C7_Witness ==
    \E i \in DOMAIN plog :
        /\ plog[i].pre.current_state = 8
        /\ plog[i].sym = " "
        /\ i + 1 \in DOMAIN plog
        /\ plog[i + 1].post.arg = <<"/","h","o","m","e","/","u"," ">>
        /\ plog[i + 1].post.current_state = 3

\* a process call in a name state whose symbol is outside the name alphabet
\* and is not the { that follows $ at once
EndsName(e) ==
    /\ e.pre.current_state \in {7, 8}
    /\ e.sym \notin VARNAME
    /\ ~(e.sym = "{" /\ e.pre.varname = <<"$">>)

\* the state a name state returns to
Before(state) == IF state \in {7, 9} THEN 0 ELSE 3

(* C8: unbraced interpolation.  In a name state the first symbol outside   *)
(* the name alphabet ends the name: the value of the name is appended to   *)
(* the token, the automaton returns to the state the $ was met in, and the *)
(* symbol is pushed back and handled in that state by the very next        *)
(* process call, before any further symbol of the text; a newline after a  *)
(* name in the base state delivers the vector.                             *)
C8_UnbracedInterpolation ==
    \A i \in DOMAIN plog :
        EndsName(plog[i]) =>
            /\ plog[i].post.current_state = Before(plog[i].pre.current_state)
            /\ plog[i].post.arg
                  = plog[i].pre.arg \o ValueOf(Tail(plog[i].pre.varname))
            /\ plog[i].post.stack = <<plog[i].sym>>
            /\ i + 1 \in DOMAIN plog
            /\ plog[i + 1].src = "pushback"
            /\ plog[i + 1].sym = plog[i].sym
            /\ plog[i + 1].pre = [plog[i].post EXCEPT !.stack = <<>>]
            /\ plog[i + 1].post.stack = <<>>
            /\ (plog[i].pre.current_state = 7 /\ plog[i].sym = "\n") =>
                  Len(plog[i + 1].post.delivered)
                      = Len(plog[i].pre.delivered) + 1

\* the text of a name buffer after its first {
RECURSIVE AfterBrace(_)
AfterBrace(v) ==
    IF v = <<>> THEN <<>>
    ELSE IF Head(v) = "{" THEN Tail(v)
    ELSE AfterBrace(Tail(v))

(* C9: braced interpolation.  A { opens a braced reference only right      *)
(* after $; every symbol but } met in a brace state joins the name; on }   *)
(* the value of the text between ${ and } is appended to the token,        *)
(* nothing is pushed back, and the automaton returns to the state the $    *)
(* was met in.                                                             *)
C9_BracedInterpolation ==
    \A e \in Calls :
        /\ (e.pre.current_state \in {7, 8} /\ e.post.current_state \in {9, 10}) =>
              /\ e.sym = "{"
              /\ e.pre.varname = <<"$">>
        /\ (e.pre.current_state \in {9, 10} /\ e.sym # "}") =>
              /\ e.post.varname = Append(e.pre.varname, e.sym)
              /\ e.post.current_state = e.pre.current_state
              /\ OnlyMoves(e)
        /\ (e.pre.current_state \in {9, 10} /\ e.sym = "}") =>
              /\ e.post.arg = e.pre.arg \o ValueOf(AfterBrace(e.pre.varname))
              /\ e.post.stack = e.pre.stack
              /\ e.post.current_state = Before(e.pre.current_state)

\* a reference whose name the environment does not set: $NAME at its end,
\* or ${NAME} at its }
UndefinedReference(e) ==
    \/ /\ e.pre.current_state \in {7, 8}
       /\ e.sym \notin VARNAME \cup {"{"}
       /\ ValueOf(Tail(e.pre.varname)) = <<>>
    \/ /\ e.pre.current_state \in {9, 10}
       /\ e.sym = "}"
       /\ SubSeq(e.pre.varname, 1, 2) = <<"$", "{">>
       /\ ValueOf(SubSeq(e.pre.varname, 3, Len(e.pre.varname))) = <<>>

(* C10: a reference to a variable the environment does not set is no       *)
(* error: it adds nothing to the token, reports nothing, closes no token   *)
(* and returns to the state the $ was met in, so the token goes on with    *)
(* the text before and after it:  a${U}b "$U c"  is the vector ab, " c".   *)
C10_UndefinedVariable ==
    /\ \A e \in Calls :
          UndefinedReference(e) =>
              /\ e.post.arg = e.pre.arg
              /\ e.post.errors = e.pre.errors
              /\ e.post.arg_list = e.pre.arg_list
              /\ e.post.delivered = e.pre.delivered
              /\ e.post.current_state = Before(e.pre.current_state)
    /\ errors = <<>>
    /\ fed = UndefScript =>
          delivered = << << <<"a", "b">>, <<" ", "c">> >> >>

\* both references of  a${U}b "$U c"  were handled and the vector delivered
C10_Witness ==
    /\ fed = UndefScript
    /\ Len(delivered) = 1
    /\ \E e \in Calls : UndefinedReference(e) /\ e.pre.current_state = 9
    /\ \E e \in Calls : UndefinedReference(e) /\ e.pre.current_state = 8

----------------------------------------------------------------------------
(* Vocabulary of the properties of reset. *)

\* the text fed and the vectors delivered since the latest reset()
TextSince == SubSeq(fed, mark.fed + 1, Len(fed))

DeliveredSince == SubSeq(delivered, mark.delivered + 1, Len(delivered))

\* a statement with balanced quotes and its terminator: a fresh tokenizer
\* ends it in the base state, on a terminator, with nothing kept
Terminated(s) ==
    /\ s # <<>>
    /\ s[Len(s)] \in Terminators
    /\ \E W \in {feed(Fresh, s)} :
          /\ W.current_state = 0
          /\ W.arg = <<>>
          /\ W.arg_list = <<>>
          /\ W.delivered # <<>>

\* the statement  ';'  and a newline
QuotedSemicolonScript == <<"'", ";", "'", "\n">>

IdemInputs ==
    {s \in Chunks \cup Scripts \cup {QuotedSemicolonScript} : Terminated(s)}

(* C11: reset() returns the whole session to its initial state: the        *)
(* vectors delivered since the latest reset(), the automaton state, the    *)
(* token in progress and the pending argument list are those of a fresh    *)
(* tokenizer fed the text fed since that reset().                          *)
C11_ResetRestoresFresh ==
    \E W \in {feed(Fresh, TextSince)} :
        /\ DeliveredSince = W.delivered
        /\ current_state = W.current_state
        /\ arg = W.arg
        /\ arg_list = W.arg_list

(* C12: right after reset(), feeding the same terminated statement with    *)
(* balanced quotes twice in a row delivers the same vectors both times.    *)
C12_Idempotence ==
    mark.fed = Len(fed) =>
        \A s \in IdemInputs :
            \E A \in {feed(Session, s)} :
            \E B \in {feed(A, s)} :
                SubSeq(A.delivered, Len(delivered) + 1, Len(A.delivered))
                    = SubSeq(B.delivered, Len(A.delivered) + 1, Len(B.delivered))

(* C14: input that ends inside a quote, an escape or a variable name is    *)
(* no error.  Nothing is reported; feed returns the automaton state, which *)
(* is 0 exactly in the base state; the token in progress and the pending   *)
(* argument list are those the last process call left; and the session is  *)
(* the one a single feed of the whole text would have left, so a later     *)
(* feed resumes where this one stopped.                                    *)
C14_UnterminatedInput ==
    /\ errors = <<>>
    /\ fed # <<>> =>
          /\ ret = current_state
          /\ ret = 0 <=> current_state = 0
    /\ plog # <<>> =>
          /\ arg = plog[Len(plog)].post.arg
          /\ arg_list = plog[Len(plog)].post.arg_list
          /\ varname = plog[Len(plog)].post.varname
    /\ \E W \in {feed(Fresh, fed)} :
          /\ arg = W.arg
          /\ arg_list = W.arg_list
          /\ varname = W.varname
          /\ current_state = W.current_state
          /\ delivered = W.delivered

\* a feed stopped inside "a b" with echo pending and a in progress, and the
\* next feed went on from there, delivered the vector and returned 0
C14_Witness ==
    /\ fed = EchoScript
    /\ plog # <<>>
    /\ plog[1].pre.current_state = 3
    /\ plog[1].pre.arg = <<"a">>
    /\ plog[1].pre.arg_list = << <<"e","c","h","o">> >>
    /\ ret = 0
    /\ Len(delivered) = 1
    /\ Len(delivered[1]) = 4

----------------------------------------------------------------------------
(* Vocabulary of the properties of the duration parser. *)

TimeCalls == {tlog[i] : i \in DOMAIN tlog}

Units == {"d", "h", "m", "s"}

Junk == letters \cup whitespace

\* the seconds of one unit
UnitSeconds(c) ==
    CASE c = "d" -> 24 * 60 * 60
      [] c = "h" -> 60 * 60
      [] c = "m" -> 60
      [] c = "s" -> 1

\* a unit letter that ends a number
EndsNumber(e) ==
    /\ e.sym \in Units
    /\ e.pre.current_state \in {1, 2}
    /\ IsNumeral(e.pre.arg)

\* the symbols the table registers in a state, as the specification lists
\* them: idle 0, integer digits 1, fractional digits 2, post-multiplier 3
HasTransition(state, sym) ==
    CASE state = 0 -> sym \in digits \cup {"+", "-"}
      [] state = 1 -> sym \in digits \cup {"."} \cup Units
      [] state = 2 -> sym \in digits \cup Units
      [] state = 3 -> sym \in digits \cup {"+", "-"} \cup Junk
      [] OTHER -> FALSE

\* a parser just constructed
FreshParser ==
    [current_state |-> 0, arg |-> <<>>, stack |-> <<>>, seconds |-> 0]

\* the parser and the accumulated total when process_string returned
AtEnd ==
    IF tlog = <<>> THEN [arg |-> <<>>, seconds |-> 0]
    ELSE [arg |-> tlog[Len(tlog)].post.arg,
          seconds |-> tlog[Len(tlog)].post.seconds]

(* C15: parse returns the sum of number times unit over the groups: the    *)
(* total starts at 0, each unit letter that ends a number adds the product *)
(* of the number and the unit's seconds, clears the accumulator and moves  *)
(* to the post-multiplier state, and no other symbol changes the total.    *)
(* So "1d 3m" is 86580, "90" is 90 and "1.5h" is 5400.                     *)
C15_SumOfGroups ==
    /\ tlog # <<>> => tlog[1].pre.seconds = 0
    /\ \A e \in TimeCalls :
          IF EndsNumber(e)
          THEN /\ e.post.seconds
                     = e.pre.seconds + float(e.pre.arg) * UnitSeconds(e.sym)
               /\ e.post.arg = <<>>
               /\ e.post.current_state = 3
               /\ e.post.exc = NoExc
          ELSE e.post.seconds = e.pre.seconds
    /\ parsed = DayMinuteText => result = Returned(86580 * Scale)
    /\ parsed = PlainText => result = Returned(90 * Scale)
    /\ parsed = FractionText => result = Returned(5400 * Scale)

\* "1d 3m" was parsed: two unit letters ended numbers, the total is 86580
C15_Witness ==
    /\ parsed = DayMinuteText
    /\ result = Returned(86580 * Scale)
    /\ Cardinality({i \in DOMAIN tlog : EndsNumber(tlog[i])}) = 2

(* C16: at the end of the input a number left in the accumulator is added  *)
(* once, with multiplier 1, and the accumulator is cleared; with an empty  *)
(* accumulator nothing is added.  So "1h" is 3600 and "1h30" is 3630.      *)
C16_EndOfInput ==
    result.kind = "ok" =>
        /\ t_arg = <<>>
        /\ seconds = result.value
        /\ AtEnd.arg = <<>> => result.value = AtEnd.seconds
        /\ AtEnd.arg # <<>> =>
              result.value = AtEnd.seconds + float(AtEnd.arg)
        /\ parsed = <<"1", "h">> => result = Returned(3600 * Scale)
        /\ parsed = TrailingText => result = Returned(3630 * Scale)

\* "1h30" was parsed: 30 was left at the end of the input and added once
C16_Witness ==
    /\ parsed = TrailingText
    /\ AtEnd.arg = <<"3", "0">>
    /\ AtEnd.seconds = 3600 * Scale
    /\ result = Returned(3630 * Scale)
    /\ t_arg = <<>>

(* C17: parse("1.2.3d") raises the parse failure at the second ".", the    *)
(* fourth symbol, met among the fractional digits; it returns no total.    *)
C17_SecondDot ==
    parsed = TwoDotsText =>
        /\ result = ParserError(".")
        /\ Len(tlog) = 4
        /\ tlog[4].sym = "."
        /\ tlog[4].pre.current_state = 2
        /\ tlog[4].pre.arg = <<"1", ".", "2">>

\* "1.2.3d" was parsed and the call raised
C17_Witness ==
    /\ parsed = TwoDotsText
    /\ result.kind = "TimeParser error"
    /\ result.sym = "."

(* C18: a symbol with no registered transition in the state it is met in   *)
(* raises the parse failure out of parse: it is the last symbol processed, *)
(* the call ends with the failure that names it, and the automaton is then *)
(* in the initial state with an empty stack.                               *)
C18_UnregisteredRaises ==
    \A i \in DOMAIN tlog :
        ~HasTransition(tlog[i].pre.current_state, tlog[i].sym) =>
            /\ i = Len(tlog)
            /\ result = ParserError(tlog[i].sym)
            /\ tlog[i].post.exc = ParserError(tlog[i].sym)
            /\ t_state = 0
            /\ t_stack = <<>>

\* "2m30s!" was parsed: the "!" met in the post-multiplier state raised
C18_Witness ==
    /\ parsed = <<"2","m","3","0","s","!">>
    /\ Len(tlog) = 6
    /\ tlog[6].pre.current_state = 3
    /\ result = ParserError("!")
    /\ t_state = 0

(* C19, as stated: letters and whitespace before the first group, as well  *)
(* as after a unit letter, are tolerated: they raise nothing and leave the *)
(* total as it is.                                                         *)
C19_JunkTolerated ==
    \A e \in TimeCalls :
        (e.sym \in Junk /\ e.pre.current_state \in {0, 3}) =>
            /\ e.post.exc = NoExc
            /\ e.post.seconds = e.pre.seconds

(* C19, amended: letters and whitespace after a unit letter are skipped:   *)
(* they raise nothing and leave the total, the accumulator and the state   *)
(* as they are, so "3hours x<tab>2m" is 10920.  A letter or a whitespace   *)
(* before the first group raises the parse failure.                        *)
C19_JunkAfterUnit ==
    /\ \A e \in TimeCalls :
          (e.sym \in Junk /\ e.pre.current_state = 3) =>
              /\ e.post.exc = NoExc
              /\ e.post.seconds = e.pre.seconds
              /\ e.post.arg = e.pre.arg
              /\ e.post.current_state = 3
    /\ \A e \in TimeCalls :
          (e.sym \in Junk /\ e.pre.current_state = 0) =>
              /\ e.post.exc = ParserError(e.sym)
              /\ result = ParserError(e.sym)
    /\ parsed = JunkAfterText => result = Returned(10920 * Scale)

\* "3hours x<tab>2m" was parsed: letters and whitespace were skipped after
\* the h, and the total is 10920
C19_Witness ==
    /\ parsed = JunkAfterText
    /\ result = Returned(10920 * Scale)
    /\ \E e \in TimeCalls : e.sym = "o" /\ e.pre.current_state = 3
    /\ \E e \in TimeCalls : e.sym = "\t" /\ e.pre.current_state = 3

(* C20: parse is history-independent: whatever was parsed before on the    *)
(* instance, and however those calls ended, the value parse(s) returns or  *)
(* the failure it raises is the one of parse(s) on a fresh instance.       *)
C20_HistoryIndependent ==
    result.kind # "none" =>
        \E R \in {parse(FreshParser, parsed)} : result = Outcome(R.x)

\* the call before raised with a number in the accumulator, and this call,
\* of the empty string, returned 0
C20_Witness ==
    /\ prior = "raised in a number"
    /\ parsed = <<>>
    /\ tlog = <<>>
    /\ result = Returned(0)

----------------------------------------------------------------------------
(* Vocabulary of the properties of the generator of time marks. *)

\* the entries of the list, trimmed
TheMarks == Marks(timespecs)

\* what parse gives for an entry alone, on a parser of its own
ValueOfMark(m) == Outcome(parse(FreshParser, m).x)

EllipsisAt == {i \in DOMAIN TheMarks : TheMarks[i] = Ellipsis}

\* the number of entries listed before the first "..."
ListedCount ==
    IF EllipsisAt = {} THEN Len(TheMarks)
    ELSE (CHOOSE i \in EllipsisAt : \A j \in EllipsisAt : i <= j) - 1

ListedOk == \A i \in 1..ListedCount : ValueOfMark(TheMarks[i]).kind = "ok"

\* the value of the i-th listed entry; 0 stands before the first
ListedValue(i) == IF i < 1 THEN 0 ELSE ValueOfMark(TheMarks[i]).value

\* the fixed step: the last listed value minus the one before it
StepOfMarks == ListedValue(ListedCount) - ListedValue(ListedCount - 1)

(* C21: on a list with the entry "..." the generator first yields each     *)
(* listed entry's own parsed value, in order, and then marks that are each *)
(* the previous mark plus the fixed step, the last listed value minus the  *)
(* one before it.  "30s,1m,1h,3h,4h,..." yields 30, 60, 3600, 10800,       *)
(* 14400, then 18000, 21600.                                               *)
C21_RepeatingMarks ==
    /\ (EllipsisAt # {} /\ ListedOk) =>
          \A i \in DOMAIN gen.yielded :
              IF i <= ListedCount
              THEN gen.yielded[i] = ListedValue(i)
              ELSE gen.yielded[i]
                      = (IF i = 1 THEN 0 ELSE gen.yielded[i - 1]) + StepOfMarks
    /\ (timespecs = RepeatingMarks /\ Len(gen.yielded) = 7) =>
          gen.yielded = <<30 * Scale, 60 * Scale, 3600 * Scale, 10800 * Scale,
                          14400 * Scale, 18000 * Scale, 21600 * Scale>>

\* seven marks of "30s,1m,1h,3h,4h,..." were yielded, two of them repeated
C21_Witness ==
    /\ timespecs = RepeatingMarks
    /\ gen.mode = "repeating"
    /\ Len(gen.yielded) = 7
    /\ gen.yielded[7] = 21600 * Scale

(* C22: on a list without the entry "..." the generator is finite: it      *)
(* yields one mark per entry, in list order, each the value parse gives    *)
(* for that entry alone, and the request after the last entry ends it.     *)
C22_FiniteMarks ==
    EllipsisAt = {} =>
        /\ gen.mode # "repeating"
        /\ Len(gen.yielded) <= Len(TheMarks)
        /\ \A i \in DOMAIN gen.yielded : gen.yielded[i] = ListedValue(i)
        /\ gen.mode = "done" => Len(gen.yielded) = Len(TheMarks)
        /\ ListedOk =>
              /\ gen.mode # "raised"
              /\ requests <= Len(TheMarks) => Len(gen.yielded) = requests
              /\ requests > Len(TheMarks) => gen.mode = "done"

\* "1d, 3h,1h , 1.5h" yielded its four marks and ended
C22_Witness ==
    /\ timespecs = FiniteMarks
    /\ gen.mode = "done"
    /\ gen.yielded = <<86400 * Scale, 10800 * Scale, 3600 * Scale, 5400 * Scale>>

(* C23: once the generator has reached the entry "..." it never ends:      *)
(* every request made so far was answered with a mark, the generator       *)
(* stands at that entry for good, so that no entry after it is parsed, and *)
(* a generator that has ended has not met "...".                           *)
C23_RepeatsForever ==
    /\ gen.mode = "repeating" =>
          /\ gen.pos = ListedCount
          /\ TheMarks[gen.pos + 1] = Ellipsis
          /\ Len(gen.yielded) = requests
    /\ gen.pos <= ListedCount
    /\ gen.mode = "done" => EllipsisAt = {}
    /\ gen.mode = "raised" => gen.pos < ListedCount
    /\ (EllipsisAt # {} /\ ListedOk /\ requests > ListedCount) =>
          gen.mode = "repeating"

\* "1m,...,30s": four marks were asked for and yielded, 30s was never parsed
C23_Witness ==
    /\ TheMarks = << <<"1","m">>, Ellipsis, <<"3","0","s">> >>
    /\ gen.mode = "repeating"
    /\ requests = 4
    /\ gen.yielded = <<60 * Scale, 120 * Scale, 180 * Scale, 240 * Scale>>
    /\ gen.pos = 1

----------------------------------------------------------------------------
(* Vocabulary of the properties of the reboot detector. *)

\* answers that show a reboot: reachable one or more times, then not
\* reachable one or more times, then reachable
ShowsReboot(obs) ==
    \E a \in 1..(Len(obs) - 2) :
        /\ \A i \in 1..a : obs[i]
        /\ \A i \in (a + 1)..(Len(obs) - 1) : ~obs[i]
        /\ obs[Len(obs)]

(* C24: go returns True only when the answers it saw were, in this order,  *)
(* reachable, then not reachable, then reachable again, and returns at     *)
(* that answer; a go call that ended otherwise raised RebootDetectorError; *)
(* go never returns False.                                                 *)
C24_RebootObserved ==
    /\ det.result \in {"none", "running", "True", "RebootDetectorError"}
    /\ det.result = "True" =>
          /\ ShowsReboot(det.observed)
          /\ det.state = REACHABLE2
    /\ det.result = "running" => ~ShowsReboot(det.observed)
    /\ det.result = "RebootDetectorError" =>
          \/ det.observed = <<FALSE>>
          \/ det.r_retries = 0

\* go returned True on the answers yes, yes, no, no, yes
C24_Witness ==
    /\ det.result = "True"
    /\ det.observed = <<TRUE, TRUE, FALSE, FALSE, TRUE>>
    /\ retries = 3

(* C25: a callback passed to go is called after the device has gone        *)
(* through its unreachable phase and is reachable again, and at most once  *)
(* in a go call.                                                           *)
C25_CallbackAfterReboot ==
    /\ Len(det.called) <= 1
    /\ \A i \in DOMAIN det.called :
          ShowsReboot(SubSeq(det.observed, 1, det.called[i]))

----------------------------------------------------------------------------
(* Vocabulary of the properties of the configuration holder. *)

Assigned == lastop.op \in {"setitem", "setattr"}

(* C26: on a locked holder the assignment of a key or attribute that is    *)
(* not present raises ConfigLockError and leaves the holder as it was; the *)
(* assignment of a present key succeeds, locked or not; so a locked holder *)
(* has no key it did not have at lock(); and copy() gives a holder with    *)
(* the same contents and the same lock state.                              *)
C26_LockedHolder ==
    /\ (Assigned /\ lastop.pre.locked # 0
                 /\ lastop.key \notin DOMAIN lastop.pre.items) =>
          /\ lastop.exc = "ConfigLockError"
          /\ holder = lastop.pre
    /\ (Assigned /\ lastop.key \in DOMAIN lastop.pre.items) =>
          /\ lastop.exc = NoError
          /\ holder.items[lastop.key] = lastop.value
          /\ DOMAIN holder.items = DOMAIN lastop.pre.items
          /\ \A k \in DOMAIN holder.items \ {lastop.key} :
                holder.items[k] = lastop.pre.items[k]
          /\ holder.locked = lastop.pre.locked
    /\ holder.locked # 0 => DOMAIN holder.items \subseteq atlock
    /\ lastop.op = "copy" =>
          /\ lastop.copy.items = holder.items
          /\ lastop.copy.locked = holder.locked

\* a holder locked with the keys a and b: a was assigned 2, b was deleted,
\* and the assignment of the new key c has just raised
C26_Witness ==
    /\ lastop.op = "setitem"
    /\ lastop.key = "c"
    /\ lastop.exc = "ConfigLockError"
    /\ holder.locked = 1
    /\ atlock = {"a", "b"}
    /\ DOMAIN holder.items = {"a"}
    /\ holder.items["a"] = 2

----------------------------------------------------------------------------
(* Vocabulary of the properties of the tables and of the feed loop. *)

\* the rows of a table registered for a symbol in a state
Rows(table, state, sym) ==
    {i \in DOMAIN table : table[i].from = state /\ sym \in table[i].syms}

\* what the rows of a table and its default offer for a symbol in a state:
\* the rows of the symbol itself, or else the rows of ANY, or else the default
Selected(table, default, state, sym) ==
    LET pick(rows) == {[action |-> table[i].action, to |-> table[i].to] :
                          i \in rows}
    IN IF Rows(table, state, sym) # {} THEN pick(Rows(table, state, sym))
       ELSE IF Rows(table, state, ANY) # {} THEN pick(Rows(table, state, ANY))
       ELSE {default}

StatesOf(table) ==
    {0} \cup {table[i].from : i \in DOMAIN table}
        \cup {table[i].to : i \in DOMAIN table}

\* the symbols a table names, and some it does not
SymbolsOf(table, more) ==
    (UNION {table[i].syms : i \in DOMAIN table} \cup more) \ {ANY}

\* every state and symbol of the tokenizer's table selects one transition,
\* the one get_transition gives
ShellTableTotal ==
    \A state \in StatesOf(Transitions) :
        \A sym \in SymbolsOf(Transitions, Alphabet \cup {"#"}) :
            Selected(Transitions, DefaultTransition, state, sym)
                = {get_transition(sym, state)}

\* the same of the duration parser's table
TimeTableTotal ==
    \A state \in StatesOf(TimeTransitions) :
        \A sym \in SymbolsOf(TimeTransitions, TimeAlphabet \cup {"#"}) :
            Selected(TimeTransitions, TimeDefault, state, sym)
                = {time_get_transition(sym, state)}

(* C27: in both tables every state and every symbol select exactly one     *)
(* transition: the entry of the symbol itself if the state has one, or     *)
(* else the ANY entry of the state, or else the default; and every process *)
(* call of a feed moves to the state that transition names.                *)
C27_TablesTotal ==
    /\ ShellTableTotal
    /\ TimeTableTotal
    /\ current_state \in StatesOf(Transitions)
    /\ \A e \in Calls :
          /\ e.pre.current_state \in StatesOf(Transitions)
          /\ \E t \in Selected(Transitions, DefaultTransition,
                               e.pre.current_state, e.sym) :
                e.post.current_state = t.to

\* a feed that met ; inside single quotes, where only ANY is registered, and
\* a newline in the base state, where the newline and ANY both are
C27_Witness ==
    \E i, j \in DOMAIN plog :
        /\ plog[i].pre.current_state = 2
        /\ plog[i].sym = ";"
        /\ Rows(Transitions, 2, ";") = {}
        /\ plog[i].post.current_state = 2
        /\ plog[j].pre.current_state = 0
        /\ plog[j].sym = "\n"
        /\ Rows(Transitions, 0, "\n") # {}
        /\ Rows(Transitions, 0, ANY) # {}
        /\ plog[j].post.delivered # plog[j].pre.delivered

(* C28: in a feed the pushback stack is empty when a symbol of the text is *)
(* taken and when feed returns; it never holds more than one symbol; the   *)
(* processing of a symbol that was pushed back pushes nothing; so a symbol *)
(* of the text has one process call, or two.                               *)
C28_PushbackDiscipline ==
    /\ stack = <<>>
    /\ \A i \in DOMAIN plog :
          /\ plog[i].pre.stack = <<>>
          /\ Len(plog[i].post.stack) <= 1
          /\ plog[i].src = "pushback" =>
                /\ plog[i].post.stack = <<>>
                /\ i > 1
                /\ plog[i - 1].src = "text"
                /\ plog[i - 1].post.stack = <<plog[i].sym>>
          /\ plog[i].src = "text" =>
                (i > 1 => plog[i - 1].post.stack = <<>>)
    /\ Len(plog) <= 2 * Consumed

\* a feed in which the newline that ended a variable name was pushed back
\* and then delivered the vector
C28_Witness ==
    \E i \in DOMAIN plog :
        /\ plog[i].src = "pushback"
        /\ plog[i].sym = "\n"
        /\ plog[i].pre.current_state = 0
        /\ plog[i].post.delivered # plog[i].pre.delivered
        /\ stack = <<>>

\* the token a word break or a terminator closes: the accumulator, if it is
\* not empty
ClosedBy(e) ==
    IF e.pre.arg # <<>> THEN Append(e.pre.arg_list, e.pre.arg)
    ELSE e.pre.arg_list

(* C29: in the base state a space, a tab, a ; or a newline appends the     *)
(* accumulator to the argument list only when it is not empty, leaves the  *)
(* accumulator empty, and is itself added to no token.                     *)
C29_NoEmptyArgument ==
    \A e \in Calls :
        (e.pre.current_state = 0 /\ e.sym \in Whitespace \cup Terminators) =>
            /\ e.post.arg = <<>>
            /\ e.post.current_state = 0
            /\ e.sym \in Whitespace => e.post.arg_list = ClosedBy(e)
            /\ e.sym \in Terminators =>
                  /\ e.post.delivered # <<>>
                  /\ e.post.delivered[Len(e.post.delivered)] = ClosedBy(e)
            /\ e.pre.arg = <<>> => ClosedBy(e) = e.pre.arg_list

\* t and two spaces were fed: the first space closed the token t, the second
\* added nothing
C29_Witness ==
    /\ fed = <<"t", " ", " ">>
    /\ arg_list = << <<"t">> >>
    /\ arg = <<>>
    /\ delivered = <<>>

\* s is the beginning of t
IsPrefix(s, t) == Len(s) <= Len(t) /\ SubSeq(t, 1, Len(s)) = s

\* a process call that calls the callback
Delivers(e) == e.pre.current_state = 0 /\ e.sym \in Terminators

(* C30: a feed calls the callback once in each process call of a ; or a    *)
(* newline in the base state, with the argument list of that moment, and   *)
(* then has an empty argument list; no other process call calls it, and    *)
(* none takes a token from the argument list; what was delivered before    *)
(* the feed is the beginning of what is delivered after it.                *)
C30_OncePerTerminator ==
    [][ /\ IsPrefix(delivered, delivered')
        /\ plog' # <<>> =>
              /\ plog'[1].pre.delivered = delivered
              /\ plog'[1].pre.arg_list = arg_list
              /\ plog'[Len(plog')].post.delivered = delivered'
              /\ plog'[Len(plog')].post.arg_list = arg_list'
        /\ \A i \in DOMAIN plog' :
              /\ i > 1 =>
                    /\ plog'[i].pre.delivered = plog'[i - 1].post.delivered
                    /\ plog'[i].pre.arg_list = plog'[i - 1].post.arg_list
              /\ Delivers(plog'[i]) =>
                    /\ plog'[i].post.delivered =
                          Append(plog'[i].pre.delivered, ClosedBy(plog'[i]))
                    /\ plog'[i].post.arg_list = <<>>
              /\ ~Delivers(plog'[i]) =>
                    /\ plog'[i].post.delivered = plog'[i].pre.delivered
                    /\ IsPrefix(plog'[i].pre.arg_list, plog'[i].post.arg_list)
      ]_vars

\* t; was fed, and then ; alone: the vector of t was delivered, and then an
\* empty vector
C30_Witness ==
    /\ delivered = << << <<"t">> >>, <<>> >>
    /\ Len(plog) = 1
    /\ plog[1].sym = ";"
    /\ arg_list = <<>>

----------------------------------------------------------------------------
(* More properties of the duration parser. *)

\* the symbols that start a number
Starts == digits \cup {"+", "-"}

(* C31: in the post-multiplier state a letter, d, h, m and s among them,   *)
(* or a whitespace changes nothing: not the total, not the accumulator,    *)
(* not the state; a sign or digit starts the next number; so between two   *)
(* unit letters that add to the total a number was started, "1ms" is 60    *)
(* and "3hours" is 10800.                                                  *)
C31_PostMultiplierSkips ==
    /\ \A i \in DOMAIN tlog :
          tlog[i].pre.current_state = 3 =>
              /\ tlog[i].sym \in Junk => tlog[i].post = tlog[i].pre
              /\ tlog[i].sym \in Starts =>
                    /\ tlog[i].post.current_state = 1
                    /\ tlog[i].post.arg = <<tlog[i].sym>>
                    /\ tlog[i].post.seconds = tlog[i].pre.seconds
              /\ tlog[i].post.current_state = 3 => tlog[i].sym \in Junk
    /\ \A i, j \in DOMAIN tlog :
          (i < j /\ tlog[i].post.seconds # tlog[i].pre.seconds
                 /\ tlog[j].post.seconds # tlog[j].pre.seconds) =>
              \E k \in (i + 1)..(j - 1) :
                  tlog[k].pre.current_state = 3 /\ tlog[k].sym \in Starts
    /\ parsed = UnitTwiceText => result = Returned(60 * Scale)
    /\ parsed = HoursText => result = Returned(10800 * Scale)

\* "1ms" was parsed: the s came in the post-multiplier state and the total
\* is 60
C31_Witness ==
    /\ parsed = UnitTwiceText
    /\ Len(tlog) = 3
    /\ tlog[3].pre.current_state = 3
    /\ tlog[3].sym = "s"
    /\ result = Returned(60 * Scale)

(* C36: when the accumulator is converted to a number, by a unit letter    *)
(* or at the end of the input, it holds a numeral: an optional sign, one   *)
(* digit at least, one "." at most; so no call ends in a failure of the    *)
(* conversion.                                                             *)
C36_WellFormedNumeral ==
    /\ \A e \in TimeCalls :
          (e.sym \in Units /\ e.pre.current_state \in {1, 2}) =>
              IsNumeral(e.pre.arg)
    /\ (tlog # <<>> /\ tlog[Len(tlog)].post.exc = NoExc /\ AtEnd.arg # <<>>) =>
          IsNumeral(AtEnd.arg)
    /\ result.kind # "float error"

----------------------------------------------------------------------------
(* More properties of the tokenizer. *)

(* C33: every state of the tokenizer's table has an ANY entry, so no       *)
(* process call of a feed takes the default transition, _error is never    *)
(* called, and no syntax error is reported.                                *)
C33_NoSyntaxError ==
    /\ \A state \in StatesOf(Transitions) : Rows(Transitions, state, ANY) # {}
    /\ current_state \in StatesOf(Transitions)
    /\ errors = <<>>
    /\ \A e \in Calls :
          /\ get_transition(e.sym, e.pre.current_state).action # "_error"
          /\ e.post.errors = <<>>

\* ${H was fed: the H, which has no entry of its own in the state 9, took
\* the ANY entry, and nothing was reported
C33_Witness ==
    /\ fed = <<"$", "{", "H">>
    /\ Rows(Transitions, 9, "H") = {}
    /\ current_state = 9
    /\ varname = <<"$", "{", "H">>
    /\ errors = <<>>

\* the symbols a feed took from its text, in order
TextSymbols(log) ==
    LET at == {i \in DOMAIN log : log[i].src = "text"}
        nth(n) == CHOOSE i \in at : Cardinality({j \in at : j <= i}) = n
    IN [n \in 1..Cardinality(at) |-> log[nth(n)].sym]

(* C34: after a feed the carry-over buffer is empty, in whatever state the *)
(* feed ends; the symbols the feed processed from a text are the symbols   *)
(* of the text it was passed, each once and in order, and none of an       *)
(* earlier feed.                                                           *)
C34_BufferEmpty ==
    [][ /\ buf' = <<>>
        /\ TextSymbols(plog') = SubSeq(fed', Len(fed) + 1, Len(fed'))
        /\ Len(plog') <= 2 * (Len(fed') - Len(fed))
      ]_vars

\* a quote and t were fed in one call and then t in another: the second
\* feed, begun inside the quotes, processed its t alone
C34_Witness ==
    /\ fed = <<"'", "t", "t">>
    /\ Len(plog) = 1
    /\ plog[1].pre.current_state = 2
    /\ plog[1].pre.arg = <<"t">>
    /\ current_state = 2
    /\ ret = 2
    /\ buf = <<>>

----------------------------------------------------------------------------
(* More properties of the reboot detector. *)

\* what the RebootDetectorError of a go call says: each branch of go raises
\* its own message, and a raise leaves state as the branch found it
Message ==
    CASE det.result # "RebootDetectorError" -> "none"
      [] det.state = UNKNOWN -> "Could not reach host initially."
      [] det.state = REACHABLE -> "Target did not become unreachable."
      [] det.state = NOTREACHABLE -> "Target did not become reachable again."

\* the answer of the latest probe
LastAnswer == det.observed[Len(det.observed)]

(* C37: go raises "Target did not become unreachable." only when every     *)
(* probe of that phase, the last one too, found the target reachable, and  *)
(* "Target did not become reachable again." only when every probe of that  *)
(* phase found it unreachable: a probe that sees the awaited change on the *)
(* last retry does not raise.                                              *)
C37_RaisesOnlyWithoutChange ==
    /\ Message = "Target did not become unreachable." => LastAnswer
    /\ Message = "Target did not become reachable again." => ~LastAnswer

----------------------------------------------------------------------------
(* Properties of the callers of the tokenizer and of the job runners. *)

(* C32: the interactive mode shows the continuation prompt exactly when    *)
(* the last feed returned a non-zero state, and when it shows the primary  *)
(* prompt nothing typed so far is pending: the argument list and the       *)
(* accumulator are empty.                                                  *)
C32_PromptFollowsFeed ==
    /\ prompt = "ps2" => ret > 0
    /\ prompt = "ps1" => ret <= 0
    /\ prompt = "ps1" => (arg_list = <<>> /\ arg = <<>>)

\* a process call of the latest feed that called the callback
Delivered(e) == e.post.delivered # e.pre.delivered

(* C35: the vector feedline returns was delivered in that same feedline    *)
(* call, never in an earlier one.                                          *)
C35_ReturnsOwnVector ==
    returned.kind = "vector" =>
        \E e \in Calls :
            /\ Delivered(e)
            /\ returned.value = e.post.delivered[Len(e.post.delivered)]

\* the job a runner is at
JobOf(r) == jobpos[r]

(* C38: a job whose lock file exists is not run; the lock file of a job    *)
(* exists as long as a runner runs it; of two runners started together on  *)
(* the same job, one at most runs it at any time.                          *)
C38_JobLocking ==
    /\ \A r \in Runners : pc[r] = "running" => JobOf(r) \in lockfiles
    /\ \A r1, r2 \in Runners :
          (r1 # r2 /\ pc[r1] = "running" /\ pc[r2] = "running") =>
              JobOf(r1) # JobOf(r2)

====
